---- MODULE Spec2Model ----
(***************************************************************************)
(* Model of the video stream endpoint of awsl-telegram-storage:            *)
(* parseChunks / decompressData, VideoStreamEndpoint.handle,               *)
(* calculateTasks, createVideoStreamFromTasks, fetchChunkResponse and      *)
(* getFilePath.                                                            *)
(*                                                                         *)
(* A JavaScript string is a sequence of one-character strings, so that     *)
(* split, includes, parseInt, the Range regular expression and the         *)
(* template literals of the headers are computed as the code computes      *)
(* them.                                                                   *)
(***************************************************************************)
EXTENDS Integers, Sequences, FiniteSets, TLC

VARIABLES
    pc,          \* "idle" | "streaming" | "done"
    req,         \* the request being served: chunks query parameter and Range header
    resp,        \* the Response returned by handle: status, headers, body
    plan,        \* what handle computed on the way: chunks, totalSize, start, end, tasks
    stream,      \* the ReadableStream built by createVideoStreamFromTasks
    cache,       \* caches.default: fileId -> file path
    upstream,    \* calls made to api.telegram.org while serving the request
    resolvers,   \* concurrent callers of getFilePath, each at one of its awaits
    codec,       \* a manifest being encoded by compressChunks and parsed back
    issuer,      \* the token endpoint: the request it answered and its answer
    uploader     \* an upload endpoint: its request, where it stands, its calls

vars == <<pc, req, resp, plan, stream, cache, upstream, resolvers, codec,
          issuer, uploader>>

----------------------------------------------------------------------------
(* Bounds of the model. *)

MaxChunks == 3

----------------------------------------------------------------------------
(* JavaScript string and number primitives. *)

DigitChars == <<"0", "1", "2", "3", "4", "5", "6", "7", "8", "9">>

IsDigit(c) == \E i \in 1..10 : DigitChars[i] = c

DigitVal(c) == (CHOOSE i \in 1..10 : DigitChars[i] = c) - 1

\* A number that may be NaN.
NaN == [nan |-> TRUE, val |-> 0]

Num(n) == [nan |-> FALSE, val |-> n]

\* String.prototype.includes for a one-character needle.
Includes(s, c) == \E i \in 1..Len(s) : s[i] = c

\* String.prototype.split for a one-character separator: "" splits to [""].
RECURSIVE Split(_, _)
Split(s, sep) ==
    IF ~Includes(s, sep) THEN <<s>>
    ELSE LET i == CHOOSE k \in 1..Len(s) :
                      s[k] = sep /\ \A j \in 1..(k - 1) : s[j] # sep
         IN  <<SubSeq(s, 1, i - 1)>> \o Split(SubSeq(s, i + 1, Len(s)), sep)

\* The number of leading decimal digits of s.
RECURSIVE LeadingDigits(_)
LeadingDigits(s) ==
    IF s # <<>> /\ IsDigit(Head(s)) THEN 1 + LeadingDigits(Tail(s)) ELSE 0

\* The value of a sequence of decimal digits.
RECURSIVE DecimalValue(_)
DecimalValue(s) ==
    IF s = <<>> THEN 0
    ELSE 10 * DecimalValue(SubSeq(s, 1, Len(s) - 1)) + DigitVal(s[Len(s)])

RECURSIVE SkipWhitespace(_)
SkipWhitespace(s) ==
    IF s # <<>> /\ Head(s) = " " THEN SkipWhitespace(Tail(s)) ELSE s

\* parseInt(s, 10): leading whitespace, an optional sign, then the longest
\* prefix of digits; NaN when there is no digit. What follows the digits is
\* ignored.
ParseInt(s) ==
    LET t == SkipWhitespace(s)
        signed == t # <<>> /\ Head(t) \in {"-", "+"}
        u == IF signed THEN Tail(t) ELSE t
        n == LeadingDigits(u)
        v == DecimalValue(SubSeq(u, 1, n))
    IN  IF n = 0 THEN NaN
        ELSE Num(IF signed /\ Head(t) = "-" THEN 0 - v ELSE v)

\* String(n) for an integer n.
RECURSIVE NatToStr(_)
NatToStr(n) ==
    IF n < 10 THEN <<DigitChars[n + 1]>>
    ELSE NatToStr(n \div 10) \o <<DigitChars[(n % 10) + 1]>>

IntToStr(n) == IF n < 0 THEN <<"-">> \o NatToStr(0 - n) ELSE NatToStr(n)

Min(a, b) == IF a < b THEN a ELSE b

Max(a, b) == IF a > b THEN a ELSE b

RECURSIVE SumSeq(_)
SumSeq(s) == IF s = <<>> THEN 0 ELSE Head(s) + SumSeq(Tail(s))

----------------------------------------------------------------------------
(* decompressData: base64url -> base64 -> bytes -> inflate -> UTF-8 text. *)

Base64Alphabet ==
    <<"A", "B", "C", "D", "E", "F", "G", "H", "I", "J", "K", "L", "M",
      "N", "O", "P", "Q", "R", "S", "T", "U", "V", "W", "X", "Y", "Z",
      "a", "b", "c", "d", "e", "f", "g", "h", "i", "j", "k", "l", "m",
      "n", "o", "p", "q", "r", "s", "t", "u", "v", "w", "x", "y", "z",
      "0", "1", "2", "3", "4", "5", "6", "7", "8", "9", "+", "/">>

IsBase64Char(c) == \E i \in 1..64 : Base64Alphabet[i] = c

Base64Val(c) == (CHOOSE i \in 1..64 : Base64Alphabet[i] = c) - 1

\* base64urlData.replace(/-/g, '+').replace(/_/g, '/')
Base64UrlToBase64MinusOnly(s) ==
    [i \in 1..Len(s) |-> IF s[i] = "-" THEN "+" ELSE s[i]]

Base64UrlToBase64(s) ==
    [i \in 1..Len(s) |-> IF s[i] = "-" THEN "+" ELSE IF s[i] = "_" THEN "/" ELSE s[i]]

\* '='.repeat((4 - (base64.length % 4)) % 4)
PaddingLength(s) == (4 - (Len(s) % 4)) % 4

\* The bytes of one group of four base64 characters, `pad` of them '='.
Base64Group(g, pad) ==
    LET v(i) == IF i > 4 - pad THEN 0 ELSE Base64Val(g[i])
        n == ((v(1) * 64 + v(2)) * 64 + v(3)) * 64 + v(4)
        b == <<n \div 65536, (n \div 256) % 256, n % 256>>
    IN  SubSeq(b, 1, 3 - pad)

RECURSIVE Base64Bytes(_, _)
Base64Bytes(s, pad) ==
    IF Len(s) <= 4 THEN Base64Group(s, pad)
    ELSE Base64Group(SubSeq(s, 1, 4), 0) \o Base64Bytes(SubSeq(s, 5, Len(s)), pad)

\* atob(base64 + padding): throws on a character outside the alphabet and on
\* a length that is 1 more than a multiple of 4; the empty string decodes to
\* no bytes.
Atob(base64, pad) ==
    IF \E i \in 1..Len(base64) : ~IsBase64Char(base64[i]) THEN [ok |-> FALSE, bytes |-> <<>>]
    ELSE IF pad = 3 THEN [ok |-> FALSE, bytes |-> <<>>]
    ELSE IF base64 = <<>> THEN [ok |-> TRUE, bytes |-> <<>>]
    ELSE [ok |-> TRUE,
          bytes |-> Base64Bytes(base64 \o [i \in 1..pad |-> "="], pad)]

\* DecompressionStream('deflate-raw') on the payloads the model sends: the
\* complete raw-deflate streams below inflate to the bytes listed, every
\* other payload of the model is rejected by the platform (invalid block
\* type). The streams are those zlib writes at its default level, which is
\* what CompressionStream('deflate-raw') gives for these texts.
InflateTable ==
    { [deflated |-> <<75, 180, 50, 6, 0>>,
       inflated |-> <<97, 58, 51>>],                                  \* a:3
      [deflated |-> <<75, 180, 50, 214, 73, 178, 50, 4, 0>>,
       inflated |-> <<97, 58, 51, 44, 98, 58, 49>>],                  \* a:3,b:1
      [deflated |-> <<75, 180, 170, 0, 0>>,
       inflated |-> <<97, 58, 120>>],                                 \* a:x
      [deflated |-> <<75, 2, 0>>,
       inflated |-> <<98>>],                                          \* b
      \* a:1
      [deflated |-> <<75, 180, 50, 4, 0>>,
       inflated |-> <<97, 58, 49>>],
      \* a:20
      [deflated |-> <<75, 180, 50, 50, 0, 0>>,
       inflated |-> <<97, 58, 50, 48>>],
      \* b:1
      [deflated |-> <<75, 178, 50, 4, 0>>,
       inflated |-> <<98, 58, 49>>],
      \* b:3
      [deflated |-> <<75, 178, 50, 6, 0>>,
       inflated |-> <<98, 58, 51>>],
      \* b:20
      [deflated |-> <<75, 178, 50, 50, 0, 0>>,
       inflated |-> <<98, 58, 50, 48>>],
      \* a:1,a:1
      [deflated |-> <<75, 180, 50, 212, 73, 180, 50, 4, 0>>,
       inflated |-> <<97, 58, 49, 44, 97, 58, 49>>],
      \* a:1,a:3
      [deflated |-> <<75, 180, 50, 212, 73, 180, 50, 6, 0>>,
       inflated |-> <<97, 58, 49, 44, 97, 58, 51>>],
      \* a:1,a:20
      [deflated |-> <<75, 180, 50, 212, 73, 180, 50, 50, 0, 0>>,
       inflated |-> <<97, 58, 49, 44, 97, 58, 50, 48>>],
      \* a:1,b:1
      [deflated |-> <<75, 180, 50, 212, 73, 178, 50, 4, 0>>,
       inflated |-> <<97, 58, 49, 44, 98, 58, 49>>],
      \* a:1,b:3
      [deflated |-> <<75, 180, 50, 212, 73, 178, 50, 6, 0>>,
       inflated |-> <<97, 58, 49, 44, 98, 58, 51>>],
      \* a:1,b:20
      [deflated |-> <<75, 180, 50, 212, 73, 178, 50, 50, 0, 0>>,
       inflated |-> <<97, 58, 49, 44, 98, 58, 50, 48>>],
      \* a:3,a:1
      [deflated |-> <<75, 180, 50, 214, 73, 180, 50, 4, 0>>,
       inflated |-> <<97, 58, 51, 44, 97, 58, 49>>],
      \* a:3,a:3
      [deflated |-> <<75, 180, 50, 214, 73, 180, 50, 6, 0>>,
       inflated |-> <<97, 58, 51, 44, 97, 58, 51>>],
      \* a:3,a:20
      [deflated |-> <<75, 180, 50, 214, 73, 180, 50, 50, 0, 0>>,
       inflated |-> <<97, 58, 51, 44, 97, 58, 50, 48>>],
      \* a:3,b:3
      [deflated |-> <<75, 180, 50, 214, 73, 178, 50, 6, 0>>,
       inflated |-> <<97, 58, 51, 44, 98, 58, 51>>],
      \* a:3,b:20
      [deflated |-> <<75, 180, 50, 214, 73, 178, 50, 50, 0, 0>>,
       inflated |-> <<97, 58, 51, 44, 98, 58, 50, 48>>],
      \* a:20,a:1
      [deflated |-> <<75, 180, 50, 50, 208, 73, 180, 50, 4, 0>>,
       inflated |-> <<97, 58, 50, 48, 44, 97, 58, 49>>],
      \* a:20,a:3
      [deflated |-> <<75, 180, 50, 50, 208, 73, 180, 50, 6, 0>>,
       inflated |-> <<97, 58, 50, 48, 44, 97, 58, 51>>],
      \* a:20,a:20
      [deflated |-> <<75, 180, 50, 50, 208, 73, 4, 18, 0>>,
       inflated |-> <<97, 58, 50, 48, 44, 97, 58, 50, 48>>],
      \* a:20,b:1
      [deflated |-> <<75, 180, 50, 50, 208, 73, 178, 50, 4, 0>>,
       inflated |-> <<97, 58, 50, 48, 44, 98, 58, 49>>],
      \* a:20,b:3
      [deflated |-> <<75, 180, 50, 50, 208, 73, 178, 50, 6, 0>>,
       inflated |-> <<97, 58, 50, 48, 44, 98, 58, 51>>],
      \* a:20,b:20
      [deflated |-> <<75, 180, 50, 50, 208, 73, 2, 18, 0>>,
       inflated |-> <<97, 58, 50, 48, 44, 98, 58, 50, 48>>],
      \* b:1,a:1
      [deflated |-> <<75, 178, 50, 212, 73, 180, 50, 4, 0>>,
       inflated |-> <<98, 58, 49, 44, 97, 58, 49>>],
      \* b:1,a:3
      [deflated |-> <<75, 178, 50, 212, 73, 180, 50, 6, 0>>,
       inflated |-> <<98, 58, 49, 44, 97, 58, 51>>],
      \* b:1,a:20
      [deflated |-> <<75, 178, 50, 212, 73, 180, 50, 50, 0, 0>>,
       inflated |-> <<98, 58, 49, 44, 97, 58, 50, 48>>],
      \* b:1,b:1
      [deflated |-> <<75, 178, 50, 212, 73, 178, 50, 4, 0>>,
       inflated |-> <<98, 58, 49, 44, 98, 58, 49>>],
      \* b:1,b:3
      [deflated |-> <<75, 178, 50, 212, 73, 178, 50, 6, 0>>,
       inflated |-> <<98, 58, 49, 44, 98, 58, 51>>],
      \* b:1,b:20
      [deflated |-> <<75, 178, 50, 212, 73, 178, 50, 50, 0, 0>>,
       inflated |-> <<98, 58, 49, 44, 98, 58, 50, 48>>],
      \* b:3,a:1
      [deflated |-> <<75, 178, 50, 214, 73, 180, 50, 4, 0>>,
       inflated |-> <<98, 58, 51, 44, 97, 58, 49>>],
      \* b:3,a:3
      [deflated |-> <<75, 178, 50, 214, 73, 180, 50, 6, 0>>,
       inflated |-> <<98, 58, 51, 44, 97, 58, 51>>],
      \* b:3,a:20
      [deflated |-> <<75, 178, 50, 214, 73, 180, 50, 50, 0, 0>>,
       inflated |-> <<98, 58, 51, 44, 97, 58, 50, 48>>],
      \* b:3,b:1
      [deflated |-> <<75, 178, 50, 214, 73, 178, 50, 4, 0>>,
       inflated |-> <<98, 58, 51, 44, 98, 58, 49>>],
      \* b:3,b:3
      [deflated |-> <<75, 178, 50, 214, 73, 178, 50, 6, 0>>,
       inflated |-> <<98, 58, 51, 44, 98, 58, 51>>],
      \* b:3,b:20
      [deflated |-> <<75, 178, 50, 214, 73, 178, 50, 50, 0, 0>>,
       inflated |-> <<98, 58, 51, 44, 98, 58, 50, 48>>],
      \* b:20,a:1
      [deflated |-> <<75, 178, 50, 50, 208, 73, 180, 50, 4, 0>>,
       inflated |-> <<98, 58, 50, 48, 44, 97, 58, 49>>],
      \* b:20,a:3
      [deflated |-> <<75, 178, 50, 50, 208, 73, 180, 50, 6, 0>>,
       inflated |-> <<98, 58, 50, 48, 44, 97, 58, 51>>],
      \* b:20,a:20
      [deflated |-> <<75, 178, 50, 50, 208, 73, 4, 18, 0>>,
       inflated |-> <<98, 58, 50, 48, 44, 97, 58, 50, 48>>],
      \* b:20,b:1
      [deflated |-> <<75, 178, 50, 50, 208, 73, 178, 50, 4, 0>>,
       inflated |-> <<98, 58, 50, 48, 44, 98, 58, 49>>],
      \* b:20,b:3
      [deflated |-> <<75, 178, 50, 50, 208, 73, 178, 50, 6, 0>>,
       inflated |-> <<98, 58, 50, 48, 44, 98, 58, 51>>],
      \* b:20,b:20
      [deflated |-> <<75, 178, 50, 50, 208, 73, 2, 18, 0>>,
       inflated |-> <<98, 58, 50, 48, 44, 98, 58, 50, 48>>],
      \* b:111,b:11,b:77
      [deflated |-> <<75, 178, 50, 52, 52, 212, 73, 178, 2, 19, 230, 230,
                      0>>,
       inflated |-> <<98, 58, 49, 49, 49, 44, 98, 58, 49, 49, 44, 98, 58,
                      55, 55>>],
      \* the manifest of ten chunks
      [deflated |-> <<75, 178, 50, 52, 48, 215, 73, 2, 147, 137, 64, 210,
                      18, 72, 26, 131, 248, 70, 134, 32, 62, 72, 202, 20,
                      193, 55, 49, 0, 241, 141, 0>>,
       inflated |-> <<98, 58, 49, 48, 55, 44, 98, 58, 49, 48, 55, 44, 97,
                      58, 49, 48, 57, 44, 97, 58, 51, 44, 98, 58, 49, 50,
                      49, 44, 97, 58, 49, 55, 44, 98, 58, 53, 51, 44, 98,
                      58, 49, 50, 49, 44, 97, 58, 52, 48, 44, 98, 58, 53,
                      50>>],
      [deflated |-> <<3, 0>>,
       inflated |-> <<>>] }                                           \* (empty)

InflateRaw(bytes) ==
    IF \E e \in InflateTable : e.deflated = bytes
    THEN [ok |-> TRUE,
          bytes |-> (CHOOSE e \in InflateTable : e.deflated = bytes).inflated]
    ELSE [ok |-> FALSE, bytes |-> <<>>]

\* new TextDecoder().decode on the ASCII bytes the model uses.
AsciiChar(b) ==
    IF b \in 48..57 THEN DigitChars[b - 47]
    ELSE IF b = 44 THEN ","
    ELSE IF b = 45 THEN "-"
    ELSE IF b = 58 THEN ":"
    ELSE IF b = 97 THEN "a"
    ELSE IF b = 98 THEN "b"
    ELSE IF b = 120 THEN "x"
    ELSE "?"

TextDecode(bytes) == [i \in 1..Len(bytes) |-> AsciiChar(bytes[i])]

\* decompressData: [ok |-> FALSE] stands for a thrown error.
decompressData(base64urlData) ==
    LET base64 == Base64UrlToBase64(base64urlData)
        decoded == Atob(base64, PaddingLength(base64))
        inflated == InflateRaw(decoded.bytes)
    IN  IF ~decoded.ok \/ ~inflated.ok THEN [ok |-> FALSE, text |-> <<>>]
        ELSE [ok |-> TRUE, text |-> TextDecode(inflated.bytes)]

----------------------------------------------------------------------------
(* parseChunks *)

\* One element of data.split(',').map(...): [fileId, sizeStr] = chunk.split(':')
\* takes the first two pieces; a missing sizeStr is undefined and
\* parseInt(undefined, 10) is NaN.
ParseEntry(entry) ==
    LET parts == Split(entry, ":")
    IN  [fileId |-> parts[1],
         size |-> IF Len(parts) >= 2 THEN ParseInt(parts[2]) ELSE NaN]

\* The format test of parseChunks: !chunksParam.includes(':')
IsCompressedFormatAlways(chunksParam) == TRUE

IsCompressedFormat(chunksParam) == ~Includes(chunksParam, ":")

\* parseChunks: [ok |-> FALSE] stands for the thrown
\* Error('Failed to decompress chunks data'); `decompressed` records whether
\* decompressData was called.
parseChunks(chunksParam) ==
    LET compressed == IsCompressedFormat(chunksParam)
        data == IF compressed THEN decompressData(chunksParam)
                ELSE [ok |-> TRUE, text |-> chunksParam]
        entries == Split(data.text, ",")
    IN  IF ~data.ok THEN [ok |-> FALSE, decompressed |-> TRUE, chunks |-> <<>>]
        ELSE [ok |-> TRUE,
              decompressed |-> compressed,
              chunks |-> [i \in 1..Len(entries) |-> ParseEntry(entries[i])]]

----------------------------------------------------------------------------
(* calculateTasks *)

\* A ChunkTask. `index` is not a field of the code's ChunkTask: it records
\* the position in the manifest of the chunk the task was made from, so that
\* properties about manifest order can be stated.
TaskFullFromStart(chunk, i, sliceStart, sliceEnd) ==
    [fileId |-> chunk.fileId,
     sliceStart |-> sliceStart,
     sliceEnd |-> sliceEnd,
     fullChunk |-> (sliceStart = 0),
     index |-> i]

Task(chunk, i, sliceStart, sliceEnd) ==
    [fileId |-> chunk.fileId,
     sliceStart |-> sliceStart,
     sliceEnd |-> sliceEnd,
     fullChunk |-> (sliceStart = 0 /\ sliceEnd = chunk.size.val),
     index |-> i]

\* The for loop of calculateTasks from chunk i on, currentPos being the
\* running offset.
RECURSIVE calculateTasksFrom(_, _, _, _, _)
calculateTasksFrom(chunks, i, currentPos, start, end) ==
    IF i > Len(chunks) THEN <<>>
    ELSE LET chunk == chunks[i]
             chunkStart == currentPos
             chunkEnd == currentPos + chunk.size.val - 1
             nextPos == currentPos + chunk.size.val
             sliceStart == Max(0, start - chunkStart)
             sliceEnd == Min(chunk.size.val, end - chunkStart + 1)
         IN  IF chunkEnd < start
             THEN calculateTasksFrom(chunks, i + 1, nextPos, start, end)
             ELSE IF chunkStart > end THEN <<>>
             ELSE (IF sliceEnd > sliceStart
                   THEN <<Task(chunk, i, sliceStart, sliceEnd)>>
                   ELSE <<>>)
                  \o calculateTasksFrom(chunks, i + 1, nextPos, start, end)

calculateTasksExclusiveEnd(chunks, start, end) ==
    calculateTasksFrom(chunks, 1, 0, start, end - 1)

calculateTasks(chunks, start, end) == calculateTasksFrom(chunks, 1, 0, start, end)

\* The running offset at which chunk i of the manifest starts.
ChunkStart(chunks, i) == SumSeq([j \in 1..(i - 1) |-> chunks[j].size.val])

----------------------------------------------------------------------------
(* VideoStreamEndpoint.handle *)

\* String literals of the code.
StrBytesEq == <<"b", "y", "t", "e", "s", "=">>
StrBytesSp == <<"b", "y", "t", "e", "s", " ">>
StrBytesStar == <<"b", "y", "t", "e", "s", " ", "*", "/">>
StrBytes == <<"b", "y", "t", "e", "s">>
StrApplicationJson ==
    <<"a", "p", "p", "l", "i", "c", "a", "t", "i", "o", "n", "/", "j", "s", "o", "n">>
StrVideoMp4 == <<"v", "i", "d", "e", "o", "/", "m", "p", "4">>
StrCacheControl ==
    <<"p", "u", "b", "l", "i", "c", ",", " ", "m", "a", "x", "-", "a", "g", "e", "=", "3", "1", "5", "3", "6", "0", "0", "0", ",">>
    \o <<" ", "i", "m", "m", "u", "t", "a", "b", "l", "e">>

\* rangeHeader.match(/bytes=(\d*)-(\d*)/) tried at position i: "bytes=", the
\* longest run of digits, "-", the longest run of digits. A digit is never
\* "-", so the greedy \d* needs no backtracking.
RangeMatchAt(h, i) ==
    LET afterEq == SubSeq(h, i + 6, Len(h))
        n1 == LeadingDigits(afterEq)
        afterStart == SubSeq(afterEq, n1 + 1, Len(afterEq))
        afterDash == Tail(afterStart)
    IN  IF i + 5 <= Len(h) /\ SubSeq(h, i, i + 5) = StrBytesEq
           /\ afterStart # <<>> /\ Head(afterStart) = "-"
        THEN [matched |-> TRUE,
              startStr |-> SubSeq(afterEq, 1, n1),
              endStr |-> SubSeq(afterDash, 1, LeadingDigits(afterDash))]
        ELSE [matched |-> FALSE, startStr |-> <<>>, endStr |-> <<>>]

\* The match is the leftmost one; the expression is not anchored.
RangeMatch(h) ==
    IF \E i \in 1..Len(h) : RangeMatchAt(h, i).matched
    THEN RangeMatchAt(h, CHOOSE i \in 1..Len(h) :
                             /\ RangeMatchAt(h, i).matched
                             /\ \A j \in 1..(i - 1) : ~RangeMatchAt(h, j).matched)
    ELSE [matched |-> FALSE, startStr |-> <<>>, endStr |-> <<>>]

\* "Parse Range header": start, end and statusCode. A header that is absent,
\* empty or does not match leaves the defaults.
ParseRangeNoClamp(hasRange, rangeHeader, totalSize) ==
    LET m == RangeMatch(rangeHeader)
    IN  IF hasRange /\ rangeHeader # <<>> /\ m.matched
        THEN [start |-> IF m.startStr # <<>> THEN ParseInt(m.startStr).val ELSE 0,
              end |-> IF m.endStr # <<>> THEN ParseInt(m.endStr).val
                      ELSE totalSize - 1,
              statusCode |-> 206]
        ELSE [start |-> 0, end |-> totalSize - 1, statusCode |-> 200]

ParseRange(hasRange, rangeHeader, totalSize) ==
    LET m == RangeMatch(rangeHeader)
    IN  IF hasRange /\ rangeHeader # <<>> /\ m.matched
        THEN [start |-> IF m.startStr # <<>> THEN ParseInt(m.startStr).val ELSE 0,
              end |-> IF m.endStr # <<>>
                      THEN Min(ParseInt(m.endStr).val, totalSize - 1)
                      ELSE totalSize - 1,
              statusCode |-> 206]
        ELSE [start |-> 0, end |-> totalSize - 1, statusCode |-> 200]

\* chunks.length === 0 || chunks.some(ch => !ch.fileId || isNaN(ch.size))
InvalidChunks(chunks) ==
    Len(chunks) = 0
    \/ \E i \in 1..Len(chunks) : chunks[i].fileId = <<>> \/ chunks[i].size.nan

\* "Validate range"
RangeNotSatisfiable(start, end, totalSize) == start >= totalSize \/ start > end

TotalSize(chunks) == SumSeq([i \in 1..Len(chunks) |-> chunks[i].size.val])

\* tasks.reduce((sum, task) => sum + (task.sliceEnd - task.sliceStart), 0)
ContentLength(tasks) ==
    SumSeq([i \in 1..Len(tasks) |-> tasks[i].sliceEnd - tasks[i].sliceStart])

NoPlan ==
    [parsed |-> FALSE, decompressed |-> FALSE, chunks |-> <<>>, totalSize |-> 0,
     start |-> 0, end |-> 0, statusCode |-> 0, tasks |-> <<>>]

\* c.json({ success: false, error }, 400)
JsonError(message) ==
    [status |-> 400,
     headers |-> [h \in {"Content-Type"} |-> StrApplicationJson],
     body |-> [kind |-> "json", success |-> FALSE, error |-> message]]

\* The catch clause around parseChunks and the format check.
OnParseError ==
    JsonError("Invalid chunks format. Expected: file_id:size,file_id:size,... or compressed base64url")

\* new Response('Range Not Satisfiable', { status: 416, headers: {...} })
RangeNotSatisfiableResponseOffByOne(totalSize) ==
    [status |-> 416,
     headers |-> [h \in {"Content-Range"} |-> StrBytesStar \o IntToStr(totalSize - 1)],
     body |-> [kind |-> "text", text |-> "Range Not Satisfiable"]]

RangeNotSatisfiableResponse(totalSize) ==
    [status |-> 416,
     headers |-> [h \in {"Content-Range"} |-> StrBytesStar \o IntToStr(totalSize)],
     body |-> [kind |-> "text", text |-> "Range Not Satisfiable"]]

\* "Build response headers" and new Response(stream, { status, headers })
HeadersWith(names, start, end, totalSize, contentLength) ==
    [h \in names |->
        CASE h = "Accept-Ranges" -> StrBytes
          [] h = "Content-Length" -> IntToStr(contentLength)
          [] h = "Content-Type" -> StrVideoMp4
          [] h = "Cache-Control" -> StrCacheControl
          [] h = "Content-Range" ->
                StrBytesSp \o IntToStr(start) \o <<"-">> \o IntToStr(end)
                    \o <<"/">> \o IntToStr(totalSize)]

StreamHeadersAlwaysRange(statusCode, start, end, totalSize, contentLength) ==
    HeadersWith({"Accept-Ranges", "Content-Length", "Content-Type", "Cache-Control",
                 "Content-Range"}, start, end, totalSize, contentLength)

StreamHeaders(statusCode, start, end, totalSize, contentLength) ==
    HeadersWith({"Accept-Ranges", "Content-Length", "Content-Type", "Cache-Control"}
                    \cup (IF statusCode = 206 THEN {"Content-Range"} ELSE {}),
                start, end, totalSize, contentLength)

\* handle, up to the Response it returns; `plan` keeps the values it
\* computed on the way. q is the request: the chunks query parameter and the
\* Range header, each present or not.
handle(q) ==
    IF ~q.hasChunks \/ q.chunks = <<>>
    THEN [resp |-> JsonError("Missing chunks parameter"), plan |-> NoPlan]
    ELSE
    LET parsed == parseChunks(q.chunks)
    IN  IF ~parsed.ok \/ InvalidChunks(parsed.chunks)
        THEN [resp |-> OnParseError,
              plan |-> [NoPlan EXCEPT !.decompressed = parsed.decompressed]]
        ELSE
        LET chunks == parsed.chunks
            totalSize == TotalSize(chunks)
            range == ParseRange(q.hasRange, q.range, totalSize)
            tasks == calculateTasks(chunks, range.start, range.end)
            p == [parsed |-> TRUE, decompressed |-> parsed.decompressed,
                  chunks |-> chunks, totalSize |-> totalSize,
                  start |-> range.start, end |-> range.end,
                  statusCode |-> range.statusCode, tasks |-> <<>>]
        IN  IF RangeNotSatisfiable(range.start, range.end, totalSize)
            THEN [resp |-> RangeNotSatisfiableResponse(totalSize), plan |-> p]
            ELSE IF Len(tasks) = 0
            THEN [resp |-> RangeNotSatisfiableResponse(totalSize),
                  plan |-> [p EXCEPT !.tasks = tasks]]
            ELSE [resp |-> [status |-> range.statusCode,
                            headers |-> StreamHeaders(range.statusCode, range.start,
                                          range.end, totalSize, ContentLength(tasks)),
                            body |-> [kind |-> "stream"]],
                  plan |-> [p EXCEPT !.tasks = tasks]]

----------------------------------------------------------------------------
(* src/api_stream.ts: the endpoint that plans inside createVideoStream *)

\* The for loop of createVideoStream from chunk i on: the loop of
\* calculateTasks without the test sliceEnd > sliceStart.
RECURSIVE createVideoStreamTasksFrom(_, _, _, _, _)
createVideoStreamTasksFrom(chunks, i, currentPos, start, end) ==
    IF i > Len(chunks) THEN <<>>
    ELSE LET chunk == chunks[i]
             chunkStart == currentPos
             chunkEnd == currentPos + chunk.size.val - 1
             nextPos == currentPos + chunk.size.val
             sliceStart == Max(0, start - chunkStart)
             sliceEnd == Min(chunk.size.val, end - chunkStart + 1)
         IN  IF chunkEnd < start
             THEN createVideoStreamTasksFrom(chunks, i + 1, nextPos, start, end)
             ELSE IF chunkStart > end THEN <<>>
             ELSE <<Task(chunk, i, sliceStart, sliceEnd)>>
                  \o createVideoStreamTasksFrom(chunks, i + 1, nextPos, start, end)

createVideoStreamTasks(chunks, start, end) ==
    createVideoStreamTasksFrom(chunks, 1, 0, start, end)

\* handle of src/api_stream.ts: contentLength = end - start + 1, and the
\* tasks are computed when the stream is created.
handleApiStream(q) ==
    IF ~q.hasChunks \/ q.chunks = <<>>
    THEN [resp |-> JsonError("Missing chunks parameter"), plan |-> NoPlan]
    ELSE
    LET parsed == parseChunks(q.chunks)
    IN  IF ~parsed.ok \/ InvalidChunks(parsed.chunks)
        THEN [resp |-> OnParseError,
              plan |-> [NoPlan EXCEPT !.decompressed = parsed.decompressed]]
        ELSE
        LET chunks == parsed.chunks
            totalSize == TotalSize(chunks)
            range == ParseRange(q.hasRange, q.range, totalSize)
            p == [parsed |-> TRUE, decompressed |-> parsed.decompressed,
                  chunks |-> chunks, totalSize |-> totalSize,
                  start |-> range.start, end |-> range.end,
                  statusCode |-> range.statusCode, tasks |-> <<>>]
        IN  IF RangeNotSatisfiable(range.start, range.end, totalSize)
            THEN [resp |-> RangeNotSatisfiableResponse(totalSize), plan |-> p]
            ELSE [resp |-> [status |-> range.statusCode,
                            headers |-> StreamHeaders(range.statusCode, range.start,
                                          range.end, totalSize,
                                          range.end - range.start + 1),
                            body |-> [kind |-> "stream"]],
                  plan |-> [p EXCEPT !.tasks =
                               createVideoStreamTasks(chunks, range.start, range.end)]]

----------------------------------------------------------------------------
(* The remote objects (Telegram files) and the requests of the model. *)

FileA == <<"a">>
FileB == <<"b">>

\* The real length in bytes of the remote object behind a file id.
RemoteLength(fileId) ==
    CASE fileId = FileA -> 3
      [] fileId = FileB -> 1
      [] OTHER -> 0

\* The bytes of a remote object: byte o of object f is the pair <<f, o>>, so
\* that a byte out of place is seen.
RemoteContent(fileId) == [o \in 1..RemoteLength(fileId) |-> <<fileId, o - 1>>]

\* result.file_path of getFile: the location of a file id never changes.
RemotePath(fileId) == <<"p">> \o fileId

\* The entries the plain manifests of the model are made of.
Entries ==
    { <<"a", ":", "3">>,           \* declared size = real size
      <<"b", ":", "1">>,
      <<"b", ":", "2">>,           \* declared size > real size
      <<"a", ":", "0">>,           \* zero size
      <<"b", ":", "-", "1">>,      \* negative size
      <<"a", ":", "x">> }          \* non-numeric size

\* entries.join(',')
RECURSIVE JoinComma(_)
JoinComma(es) ==
    IF Len(es) = 1 THEN es[1]
    ELSE es[1] \o <<",">> \o JoinComma(Tail(es))

\* Every manifest of 1..MaxChunks entries, and some more shapes: no
\* identifier, empty size, no size, empty entry, digits followed by other
\* characters, a third field, the manifest a:10,b:20, and a manifest of
\* four chunks whose second size is -2.
PlainParams ==
    UNION { { JoinComma(es) : es \in [1..n -> Entries] } : n \in 1..MaxChunks }
    \cup { <<":", "3">>,
           <<"a", ":", "3", ",", ":", "1">>,
           <<"a", ":">>,
           <<"a", ":", "3", ",", "b">>,
           <<"a", ":", "3", ",">>,
           <<",", "a", ":", "3">>,
           <<"a", ":", "3", "x", ",", "b", ":", "1">>,
           <<"a", ":", "3", ":", "9">>,
           <<"a", ":", "a", "b", "c">>,
           <<"a", ":", "1", "0", ",", "b", ":", "2", "0">>,
           <<"a", ":", "3", ",", "b", ":", "-", "2", ",",
             "a", ":", "3", ",", "b", ":", "1">> }

\* Values of the chunks parameter without ':': the base64url forms of
\* raw-deflate("a:3"), ("a:3,b:1"), ("a:x"), ("b") and (""), two payloads that
\* are base64 but no deflate stream, a payload whose length no base64 text
\* has, and one with a character outside base64url.
CompressedParams ==
    { <<"S", "7", "Q", "y", "B", "g", "A">>,
      <<"S", "7", "Q", "y", "1", "k", "m", "y", "M", "g", "Q", "A">>,
      <<"S", "7", "S", "q", "A", "A", "A">>,
      <<"S", "w", "I", "A">>,
      <<"A", "w", "A">>,
      <<"_", "_", "_", "_">>,
      <<"B", "w", "A", "A">>,
      <<"a">>,
      <<"S", "7", "Q", "!">> }

\* The numerals a Range header of the model is written with.
MaxOffset == 4

RangeNumerals == { <<>> } \cup { IntToStr(n) : n \in 0..MaxOffset }

\* Headers the regular expression does not match.
NonMatchingRangeHeaders ==
    { StrBytes \o <<" ", "1", "-", "2">>,
      StrBytesEq \o <<"x", "-", "2">>,
      StrBytesEq \o <<"1">> }

\* A match that does not start at the first character and is followed by more.
EmbeddedRangeHeader == <<"x">> \o StrBytesEq \o <<"1", "-", "2", ",", "4", "-">>

RangeHeaders ==
    { StrBytesEq \o s \o <<"-">> \o e : s \in RangeNumerals, e \in RangeNumerals }
    \cup { StrBytesEq \o <<"5", "-", "1", "5">>,
           StrBytesEq \o <<"1", "-", "9", "9">>,
           EmbeddedRangeHeader }
    \cup NonMatchingRangeHeaders

Requests ==
    { [hasChunks |-> TRUE, chunks |-> c, hasRange |-> TRUE, range |-> h] :
          c \in (PlainParams \cup CompressedParams \cup { <<>> }),
          h \in (RangeHeaders \cup { <<>> }) }
    \cup { [hasChunks |-> TRUE, chunks |-> c, hasRange |-> FALSE, range |-> <<>>] :
          c \in (PlainParams \cup CompressedParams \cup { <<>> }) }
    \cup { [hasChunks |-> FALSE, chunks |-> <<>>, hasRange |-> r, range |-> <<>>] :
          r \in BOOLEAN }

----------------------------------------------------------------------------
(* auth.ts (validateAuth) and the token endpoint (TokenGenerate).

   The value of the X-Api-Token header is modelled by the pieces that
   token.split('.') gives. A JWT is three pieces: the header, the payload
   and the signature, the signature naming the key and the payload it was
   made over. *)

\* c.env.API_TOKEN, and a secret that is not the API_TOKEN.
ApiTokenSecret == "api-token"

OtherSecret == "other-secret"

API_TOKEN == <<ApiTokenSecret>>

\* The header is absent.
NoHeader == <<>>

\* A payload without exp.
NoExp == -1

\* sign(payload, secret) of hono/jwt, HS256.
Sign(payload, secret) ==
    <<"HS256", payload, [key |-> secret, over |-> payload]>>

\* verify(token, secret) of hono/jwt threw.
VerifyThrew == [ok |-> FALSE, payload |-> <<>>]

\* The outcomes verify(token, secret) of hono/jwt can have at the time now:
\* it throws on a token that is no JWT of the algorithm, on a signature not
\* made with the secret over the payload, and on an exp that is past. The
\* library is not part of the repository: at exp = now both outcomes are
\* kept.
Verify(token, secret, now) ==
    IF token[1] # "HS256" \/ token[3] # [key |-> secret, over |-> token[2]]
    THEN {VerifyThrew}
    ELSE IF token[2].exp # NoExp /\ token[2].exp < now THEN {VerifyThrew}
    ELSE IF token[2].exp = now
    THEN {VerifyThrew, [ok |-> TRUE, payload |-> token[2]]}
    ELSE {[ok |-> TRUE, payload |-> token[2]]}

AuthFailure(error) == [success |-> FALSE, error |-> error, tokenType |-> "none"]

\* validateAuth for a token whose verify did not throw, payload being the
\* verified payload: the additional expiry check and the scope check.
ValidatePayloadAnyScope(payload, now) ==
    IF payload.exp # NoExp /\ payload.exp # 0 /\ payload.exp < now
    THEN AuthFailure("JWT token has expired")
    ELSE [success |-> TRUE, error |-> "", tokenType |-> "jwt"]

ValidatePayload(payload, now) ==
    IF payload.exp # NoExp /\ payload.exp # 0 /\ payload.exp < now
    THEN AuthFailure("JWT token has expired")
    ELSE IF payload.scope # "upload"
    THEN AuthFailure("JWT token does not have upload permission")
    ELSE [success |-> TRUE, error |-> "", tokenType |-> "jwt"]
\* validateAuth(c) at the time now, token being the X-Api-Token header: the
\* AuthResults it can return.
validateAuth(token, now) ==
    IF token = NoHeader \/ token = <<"">>
    THEN {AuthFailure("Missing X-Api-Token header")}
    ELSE IF Len(token) = 3
    THEN { IF v.ok THEN ValidatePayload(v.payload, now)
           ELSE AuthFailure("Invalid or expired JWT token") :
           v \in Verify(token, ApiTokenSecret, now) }
    ELSE IF Len(token) = 1 /\ token = API_TOKEN
    THEN {[success |-> TRUE, error |-> "", tokenType |-> "api_token"]}
    ELSE {AuthFailure("Invalid API token")}

\* const MAX_EXPIRY = 86400, and the default of expires_in.
MAX_EXPIRY == 86400

DefaultExpiresIn == 3600

\* The body has no expires_in.
NoExpiresIn == -999999

\* data.body.expires_in || 3600: the schema gives 3600 to a body without
\* expires_in, and || gives 3600 to 0.
ExpiresIn(expires_in) ==
    IF expires_in = NoExpiresIn \/ expires_in = 0 THEN DefaultExpiresIn
    ELSE expires_in

NoToken == <<>>

\* TokenGenerate.handle at the time now; q is the X-Api-Token header and the
\* body. `token` is the JWT of a 200, NoToken otherwise.
TokenGenerateHandle(q, now) ==
    IF q.token = NoHeader \/ q.token = <<"">> \/ Len(q.token) # 1
       \/ q.token # API_TOKEN
    THEN [status |-> 401, token |-> NoToken, expires_in |-> 0]
    ELSE LET expiresIn == ExpiresIn(q.expires_in)
         IN  IF expiresIn > MAX_EXPIRY
             THEN [status |-> 400, token |-> NoToken, expires_in |-> 0]
             ELSE IF expiresIn <= 0
             THEN [status |-> 400, token |-> NoToken, expires_in |-> 0]
             ELSE [status |-> 200,
                   token |-> Sign([iss |-> "awsl-telegram-storage",
                                   sub |-> "upload",
                                   iat |-> now,
                                   exp |-> now + expiresIn,
                                   scope |-> "upload",
                                   chat_id |-> q.chat_id],
                                  ApiTokenSecret),
                   expires_in |-> expiresIn]

NoIssuer ==
    [phase |-> "idle", req |-> <<>>, now |-> 0, status |-> 0, token |-> NoToken,
     expires_in |-> 0]

\* The upload endpoints: no request is being served.
NoUpload ==
    [phase |-> "idle", endpoint |-> "none", token |-> NoHeader, now |-> 0,
     status |-> 0, calls |-> 0, fileSize |-> 0, chunkSize |-> 0,
     totalChunks |-> 0, delivered |-> 0, done |-> FALSE, buffer |-> <<>>,
     chunks |-> <<>>, chunkIndex |-> 0, bytesRead |-> 0]

\* const DEFAULT_CHUNK_SIZE = 10 * 1024 * 1024, MAX_CHUNK_SIZE = 50 * 1024 * 1024
DEFAULT_CHUNK_SIZE == 10485760

MAX_CHUNK_SIZE == 52428800

\* Math.ceil(fileSize / chunkSize) for fileSize >= 0 and chunkSize > 0.
Ceil(fileSize, chunkSize) == (fileSize + chunkSize - 1) \div chunkSize

\* The chunk size chosen from the chunk_size field of the form: absent or
\* empty gives the default; [ok |-> FALSE] stands for the 400 answered to a
\* value that is not a number, not positive or above the maximum.
ChunkSizeOf(chunkSizeParam) ==
    IF chunkSizeParam = <<>> THEN [ok |-> TRUE, size |-> DEFAULT_CHUNK_SIZE]
    ELSE LET chunkSize == ParseInt(chunkSizeParam)
         IN  IF chunkSize.nan \/ chunkSize.val <= 0 \/ chunkSize.val > MAX_CHUNK_SIZE
             THEN [ok |-> FALSE, size |-> 0]
             ELSE [ok |-> TRUE, size |-> chunkSize.val]

----------------------------------------------------------------------------
(* createVideoStreamFromTasks, fetchChunkResponse, getFilePath *)

NoRequest == [hasChunks |-> FALSE, chunks |-> <<>>, hasRange |-> FALSE, range |-> <<>>]

NoResponse == [status |-> 0, headers |-> <<>>, body |-> [kind |-> "none"]]

\* The stream: `state` is the state of the ReadableStream, taskIndex the
\* closure variable of createVideoStreamFromTasks, `phase` the await at which
\* pull() is suspended ("idle": no pull is running), `read` the number of
\* bytes of the remote body read so far, `emitted` the bytes enqueued so
\* far, in order.
NoStream ==
    [state |-> "none", taskIndex |-> 0, phase |-> "idle", read |-> 0,
     emitted |-> <<>>, error |-> ""]

NewStream == [NoStream EXCEPT !.state = "readable"]

NoCalls == [getFile |-> 0, fetch |-> 0]

\* The task pull() is working on: tasks[taskIndex++] was taken.
CurrentTask == plan.tasks[stream.taskIndex]

\* controller.error(error): a readable stream becomes errored and pull is
\* not called again; on a stream that is no longer readable (the consumer
\* cancelled it) controller.error does nothing. Either way pull() returns.
ErroredContinue(message) ==
    /\ stream' = [stream EXCEPT !.phase = "idle", !.error = message]
    /\ pc' = pc

ErroredDropsBytes(message) ==
    /\ stream' = IF stream.state = "readable"
                 THEN [stream EXCEPT !.state = "errored", !.phase = "idle",
                                     !.error = message, !.emitted = <<>>]
                 ELSE [stream EXCEPT !.phase = "idle"]
    /\ pc' = "done"

Errored(message) ==
    /\ stream' = IF stream.state = "readable"
                 THEN [stream EXCEPT !.state = "errored", !.phase = "idle",
                                     !.error = message]
                 ELSE [stream EXCEPT !.phase = "idle"]
    /\ pc' = "done"

\* caches.default, the concurrent callers of getFilePath and the manifest
\* codec of the client are no part of a request being served.
NoResolver ==
    [fileId |-> <<>>, phase |-> "idle", held |-> FALSE, calls |-> 0,
     stored |-> FALSE, result |-> <<>>]

NoCodec == [phase |-> "idle", manifest |-> <<>>, compressed |-> FALSE,
            encoded |-> <<>>, decoded |-> <<>>]

MaxResolvers == 2

Init ==
    /\ pc = "idle"
    /\ req = NoRequest
    /\ resp = NoResponse
    /\ plan = NoPlan
    /\ stream = NoStream
    /\ cache = <<>>
    /\ upstream = NoCalls
    /\ resolvers = [i \in 1..MaxResolvers |-> NoResolver]
    /\ codec = NoCodec
    /\ issuer = NoIssuer
    /\ uploader = NoUpload

\* A request arrives and handle returns its Response.
HandleAlwaysStreams(q) ==
    /\ req' = q
    /\ \E r \in {handle(q)} :
           /\ resp' = r.resp
           /\ plan' = r.plan
    /\ stream' = NewStream
    /\ pc' = "streaming"
    /\ upstream' = NoCalls
    /\ UNCHANGED <<cache, resolvers, codec, issuer, uploader>>

Handle(q) ==
    /\ req' = q
    /\ \E r \in {handle(q)} :
           /\ resp' = r.resp
           /\ plan' = r.plan
           /\ stream' = IF r.resp.body.kind = "stream" THEN NewStream ELSE NoStream
           /\ pc' = IF r.resp.body.kind = "stream" THEN "streaming" ELSE "done"
    /\ upstream' = NoCalls
    /\ UNCHANGED <<cache, resolvers, codec, issuer, uploader>>

\* The stream calls pull() when it is readable and no pull() is running.
PullReadyWhileReading(s) == s.state = "readable" /\ s.phase \in {"idle", "body"}

PullReady(s) == s.state = "readable" /\ s.phase = "idle"

\* pull(controller), up to its first await: close when every task is done,
\* else take the next task.
PullClosesBeforeLastTask ==
    /\ pc = "streaming" /\ PullReady(stream)
    /\ IF stream.taskIndex + 1 >= Len(plan.tasks)
       THEN /\ stream' = [stream EXCEPT !.state = "closed"]
            /\ pc' = "done"
       ELSE /\ stream' = [stream EXCEPT !.taskIndex = @ + 1, !.phase = "match"]
            /\ pc' = pc
    /\ UNCHANGED <<req, resp, plan, cache, upstream, resolvers, codec, issuer, uploader>>

Pull ==
    /\ pc = "streaming" /\ PullReady(stream)
    /\ IF stream.taskIndex >= Len(plan.tasks)
       THEN /\ stream' = [stream EXCEPT !.state = "closed"]
            /\ pc' = "done"
       ELSE /\ stream' = [stream EXCEPT !.taskIndex = @ + 1, !.phase = "match"]
            /\ pc' = pc
    /\ UNCHANGED <<req, resp, plan, cache, upstream, resolvers, codec, issuer, uploader>>

\* The consumer cancels the stream (the client disconnects). The underlying
\* source has no cancel callback: a pull() that is running goes on.
Cancel ==
    /\ pc = "streaming" /\ stream.state = "readable"
    /\ stream' = [stream EXCEPT !.state = "cancelled"]
    /\ pc' = IF stream.phase = "idle" THEN "done" ELSE pc
    /\ UNCHANGED <<req, resp, plan, cache, upstream, resolvers, codec, issuer, uploader>>

\* if (cachedResponse): the cache holds an entry for the key of fileId.
CacheHitNever(c, fileId) == FALSE

CacheHit(c, fileId) == fileId \in DOMAIN c

\* cache.put(cacheKey, cacheResponse): the key is made from fileId.
CachePutOneKey(c, fileId, filePath) == [f \in DOMAIN c \cup {fileId} |-> filePath]

CachePut(c, fileId, filePath) ==
    [f \in DOMAIN c \cup {fileId} |-> IF f = fileId THEN filePath ELSE c[f]]

\* getFilePath: cache.match(cacheKey); a hit returns the cached path.
CacheMatch ==
    /\ pc = "streaming" /\ stream.phase = "match"
    /\ stream' = [stream EXCEPT !.phase =
                     IF CacheHit(cache, CurrentTask.fileId) THEN "fetch" ELSE "getFile"]
    /\ UNCHANGED <<pc, req, resp, plan, cache, upstream, resolvers, codec, issuer, uploader>>

\* getFilePath on a miss: the getFile call answers ok, the path is put in the
\* cache and returned.
GetFileOk ==
    /\ pc = "streaming" /\ stream.phase = "getFile"
    /\ upstream' = [upstream EXCEPT !.getFile = @ + 1]
    /\ cache' = CachePut(cache, CurrentTask.fileId, RemotePath(CurrentTask.fileId))
    /\ stream' = [stream EXCEPT !.phase = "fetch"]
    /\ UNCHANGED <<pc, req, resp, plan, resolvers, codec, issuer, uploader>>

\* getFilePath on a miss: the getFile call answers not ok, getFilePath throws.
GetFileFail ==
    /\ pc = "streaming" /\ stream.phase = "getFile"
    /\ upstream' = [upstream EXCEPT !.getFile = @ + 1]
    /\ Errored("Failed to get file info")
    /\ UNCHANGED <<req, resp, plan, cache, resolvers, codec, issuer, uploader>>

\* fetchChunkResponse: the file is fetched and the response is ok; the body
\* is then read piece by piece (fullChunk) or as one arrayBuffer.
FetchOk ==
    /\ pc = "streaming" /\ stream.phase = "fetch"
    /\ upstream' = [upstream EXCEPT !.fetch = @ + 1]
    /\ stream' = [stream EXCEPT !.read = 0,
                     !.phase = IF CurrentTask.fullChunk THEN "body" ELSE "buffer"]
    /\ UNCHANGED <<pc, req, resp, plan, cache, resolvers, codec, issuer, uploader>>

\* fetchChunkResponse: the response is not ok, fetchChunkResponse throws.
FetchFail ==
    /\ pc = "streaming" /\ stream.phase = "fetch"
    /\ upstream' = [upstream EXCEPT !.fetch = @ + 1]
    /\ Errored("Failed to download chunk")
    /\ UNCHANGED <<req, resp, plan, cache, resolvers, codec, issuer, uploader>>

\* The largest piece one reader.read() delivers, in bytes.
MaxPiece == 3

\* fullChunk: reader.read() delivers the next n bytes of the remote body and
\* they are enqueued as they are. On a stream that is no longer readable
\* controller.enqueue throws, the catch clause calls controller.error and
\* pull() returns.
ReadPiece(n) ==
    /\ pc = "streaming" /\ stream.phase = "body"
    /\ stream.read + n <= RemoteLength(CurrentTask.fileId)
    /\ IF stream.state = "readable"
       THEN /\ stream' = [stream EXCEPT
                             !.read = @ + n,
                             !.emitted = @ \o SubSeq(RemoteContent(CurrentTask.fileId),
                                                     stream.read + 1, stream.read + n)]
            /\ pc' = pc
       ELSE /\ stream' = [stream EXCEPT !.read = @ + n, !.phase = "idle"]
            /\ pc' = "done"
    /\ UNCHANGED <<req, resp, plan, cache, upstream, resolvers, codec, issuer, uploader>>

\* fullChunk: reader.read() answers done, pull() returns.
ReadDoneChecksLength ==
    /\ pc = "streaming" /\ stream.phase = "body"
    /\ stream.read = RemoteLength(CurrentTask.fileId)
    /\ IF stream.state = "readable"
          /\ stream.read # plan.chunks[CurrentTask.index].size.val
       THEN Errored("Slice end exceeds data length")
       ELSE /\ stream' = [stream EXCEPT !.phase = "idle"]
            /\ pc' = IF stream.state = "readable" THEN pc ELSE "done"
    /\ UNCHANGED <<req, resp, plan, cache, upstream, resolvers, codec, issuer, uploader>>

ReadDone ==
    /\ pc = "streaming" /\ stream.phase = "body"
    /\ stream.read = RemoteLength(CurrentTask.fileId)
    /\ stream' = [stream EXCEPT !.phase = "idle"]
    /\ pc' = IF stream.state = "readable" THEN pc ELSE "done"
    /\ UNCHANGED <<req, resp, plan, cache, upstream, resolvers, codec, issuer, uploader>>

\* The checks of the sliced branch, on the bytes of the arrayBuffer: "" when
\* the slice may be enqueued, else the error thrown.
SliceErrorNone(task, data) == ""

SliceError(task, data) ==
    IF Len(data) = 0 THEN "Empty response from Telegram"
    ELSE IF task.sliceEnd > Len(data) THEN "Slice end exceeds data length"
    ELSE IF Min(task.sliceEnd, Len(data)) <= task.sliceStart THEN "Sliced data is empty"
    ELSE ""

\* A slice of the same length taken from the first byte of the data.
SliceShifted(data, sliceStart, sliceEnd) ==
    SubSeq(data, 1, Min(sliceEnd, Len(data)) - sliceStart)

\* data.slice(sliceStart, sliceEnd) for 0 <= sliceStart: both ends are
\* clamped to the length, a negative end counts from the end of the data,
\* and an end before the start gives no bytes.
Slice(data, sliceStart, sliceEnd) ==
    LET from == Min(sliceStart, Len(data))
        to == IF sliceEnd < 0 THEN Max(Len(data) + sliceEnd, 0)
              ELSE Min(sliceEnd, Len(data))
    IN  SubSeq(data, from + 1, to)

\* Not fullChunk: the whole body is loaded, checked, sliced and enqueued; on
\* a stream that is no longer readable controller.enqueue throws and pull()
\* returns.
SliceBody ==
    /\ pc = "streaming" /\ stream.phase = "buffer"
    /\ LET data == RemoteContent(CurrentTask.fileId)
           err == SliceError(CurrentTask, data)
       IN  IF err # "" \/ stream.state # "readable"
           THEN Errored(err)
           ELSE /\ stream' = [stream EXCEPT
                                !.phase = "idle",
                                !.read = Len(data),
                                !.emitted = @ \o Slice(data, CurrentTask.sliceStart,
                                                       CurrentTask.sliceEnd)]
                /\ pc' = pc
    /\ UNCHANGED <<req, resp, plan, cache, upstream, resolvers, codec, issuer, uploader>>

\* Reading the remote body fails (reader.read() or arrayBuffer() rejects).
BodyFail ==
    /\ pc = "streaming" /\ stream.phase \in {"body", "buffer"}
    /\ Errored("body read failed")
    /\ UNCHANGED <<req, resp, plan, cache, upstream, resolvers, codec, issuer, uploader>>

\* The request is over; the worker serves the next one. caches.default
\* outlives the request.
Finish ==
    /\ pc = "done"
    /\ pc' = "idle"
    /\ req' = NoRequest
    /\ resp' = NoResponse
    /\ plan' = NoPlan
    /\ stream' = NoStream
    /\ upstream' = NoCalls
    /\ UNCHANGED <<cache, resolvers, codec, issuer, uploader>>

Next ==
    \/ (pc = "idle" /\ \E q \in Requests : Handle(q))
    \/ Pull
    \/ Cancel
    \/ CacheMatch
    \/ GetFileOk
    \/ GetFileFail
    \/ FetchOk
    \/ FetchFail
    \/ (pc = "streaming" /\ \E n \in 1..MaxPiece : ReadPiece(n))
    \/ ReadDone
    \/ SliceBody
    \/ BodyFail
    \/ Finish

Spec == Init /\ [][Next]_vars

\* The endpoint when the consumer keeps pulling and every upstream call
\* succeeds and ends: the stream is not cancelled, getFile and the download
\* answer ok, the body is read to its end, and no step that can be taken is
\* put off for ever. The runtime calls pull() whenever the stream wants
\* data, and each await of pull() settles.
PullingNext ==
    \/ (pc = "idle" /\ \E q \in Requests : Handle(q))
    \/ Pull
    \/ CacheMatch
    \/ GetFileOk
    \/ FetchOk
    \/ (pc = "streaming" /\ \E n \in 1..MaxPiece : ReadPiece(n))
    \/ ReadDone
    \/ SliceBody
    \/ Finish

PullingSpec ==
    /\ Init /\ [][PullingNext]_vars
    /\ WF_vars(Pull)
    /\ WF_vars(CacheMatch)
    /\ WF_vars(GetFileOk)
    /\ WF_vars(FetchOk)
    /\ WF_vars(pc = "streaming" /\ \E n \in 1..MaxPiece : ReadPiece(n))
    /\ WF_vars(ReadDone)
    /\ WF_vars(SliceBody)

----------------------------------------------------------------------------
(* The endpoint of src/api_stream.ts as a state machine: its handle, and a
   sliced branch that enqueues data.slice(...) unchecked. getFilePath,
   fetchChunkResponse and the fullChunk branch are the same code. *)

HandleApiStream(q) ==
    /\ req' = q
    /\ \E r \in {handleApiStream(q)} :
           /\ resp' = r.resp
           /\ plan' = r.plan
           /\ stream' = IF r.resp.body.kind = "stream" THEN NewStream ELSE NoStream
           /\ pc' = IF r.resp.body.kind = "stream" THEN "streaming" ELSE "done"
    /\ upstream' = NoCalls
    /\ UNCHANGED <<cache, resolvers, codec, issuer, uploader>>

\* controller.enqueue(data.slice(task.sliceStart, task.sliceEnd))
SliceBodyApiStream ==
    /\ pc = "streaming" /\ stream.phase = "buffer"
    /\ IF stream.state # "readable"
       THEN Errored("enqueue on a stream that is not readable")
       ELSE /\ stream' = [stream EXCEPT
                             !.phase = "idle",
                             !.read = RemoteLength(CurrentTask.fileId),
                             !.emitted = @ \o Slice(RemoteContent(CurrentTask.fileId),
                                                    CurrentTask.sliceStart,
                                                    CurrentTask.sliceEnd)]
            /\ pc' = pc
    /\ UNCHANGED <<req, resp, plan, cache, upstream, resolvers, codec, issuer, uploader>>

ApiStreamNext ==
    \/ (pc = "idle" /\ \E q \in Requests : HandleApiStream(q))
    \/ Pull
    \/ Cancel
    \/ CacheMatch
    \/ GetFileOk
    \/ GetFileFail
    \/ FetchOk
    \/ FetchFail
    \/ (pc = "streaming" /\ \E n \in 1..MaxPiece : ReadPiece(n))
    \/ ReadDone
    \/ SliceBodyApiStream
    \/ BodyFail
    \/ Finish

ApiStreamSpec == Init /\ [][ApiStreamNext]_vars

----------------------------------------------------------------------------
(* getFilePath called by concurrent requests: each caller is at one of the
   awaits of getFilePath, and caches.default is shared by all of them. *)

FileIds == {FileA, FileB}

\* getFilePath(fileId, botToken) is called.
GetFilePathCall(i, fileId) ==
    /\ resolvers[i].phase \in {"idle", "done", "failed"}
    /\ resolvers' = [resolvers EXCEPT ![i] =
                         [NoResolver EXCEPT !.fileId = fileId, !.phase = "match"]]
    /\ UNCHANGED <<pc, req, resp, plan, stream, cache, upstream, codec, issuer, uploader>>

\* await cache.match(cacheKey): a hit returns the cached text. `held`
\* records whether the cache held the entry at that moment.
GetFilePathMatch(i) ==
    /\ resolvers[i].phase = "match"
    /\ LET r == resolvers[i]
           held == r.fileId \in DOMAIN cache
       IN  resolvers' = [resolvers EXCEPT ![i] =
               IF CacheHit(cache, r.fileId)
               THEN [r EXCEPT !.phase = "done", !.result = cache[r.fileId],
                              !.held = held]
               ELSE [r EXCEPT !.phase = "getFile", !.held = held]]
    /\ UNCHANGED <<pc, req, resp, plan, stream, cache, upstream, codec, issuer, uploader>>

\* await fetch(getFile) and fileRes.json(): fileData.ok.
GetFilePathLookupOk(i) ==
    /\ resolvers[i].phase = "getFile"
    /\ resolvers' = [resolvers EXCEPT ![i] =
           [resolvers[i] EXCEPT !.phase = "put", !.calls = @ + 1,
                                !.result = RemotePath(resolvers[i].fileId)]]
    /\ UNCHANGED <<pc, req, resp, plan, stream, cache, upstream, codec, issuer, uploader>>

\* await fetch(getFile) and fileRes.json(): !fileData.ok, getFilePath throws.
GetFilePathLookupFailStores(i) ==
    /\ resolvers[i].phase = "getFile"
    /\ resolvers' = [resolvers EXCEPT ![i] =
           [resolvers[i] EXCEPT !.phase = "failed", !.calls = @ + 1]]
    /\ cache' = CachePut(cache, resolvers[i].fileId, <<>>)
    /\ UNCHANGED <<pc, req, resp, plan, stream, upstream, codec, issuer, uploader>>

GetFilePathLookupFail(i) ==
    /\ resolvers[i].phase = "getFile"
    /\ resolvers' = [resolvers EXCEPT ![i] =
           [resolvers[i] EXCEPT !.phase = "failed", !.calls = @ + 1]]
    /\ UNCHANGED <<pc, req, resp, plan, stream, cache, upstream, codec, issuer, uploader>>

\* await cache.put(cacheKey, cacheResponse), then return filePath. `stored`
\* records whether the cache holds the returned path after the put.
GetFilePathPut(i) ==
    /\ resolvers[i].phase = "put"
    /\ cache' = CachePut(cache, resolvers[i].fileId, resolvers[i].result)
    /\ resolvers' = [resolvers EXCEPT ![i] =
           [resolvers[i] EXCEPT
               !.phase = "done",
               !.stored = /\ resolvers[i].fileId \in DOMAIN cache'
                          /\ cache'[resolvers[i].fileId] = resolvers[i].result]]
    /\ UNCHANGED <<pc, req, resp, plan, stream, upstream, codec, issuer, uploader>>

\* 'Cache-Control': 'public, max-age=86400': the entry of fileId lapses.
Expire(fileId) ==
    /\ fileId \in DOMAIN cache
    /\ cache' = [f \in DOMAIN cache \ {fileId} |-> cache[f]]
    /\ UNCHANGED <<pc, req, resp, plan, stream, upstream, resolvers, codec, issuer, uploader>>

ResolverNext ==
    \/ \E i \in 1..MaxResolvers, f \in FileIds : GetFilePathCall(i, f)
    \/ \E i \in 1..MaxResolvers : GetFilePathMatch(i)
    \/ \E i \in 1..MaxResolvers : GetFilePathLookupOk(i)
    \/ \E i \in 1..MaxResolvers : GetFilePathLookupFail(i)
    \/ \E i \in 1..MaxResolvers : GetFilePathPut(i)
    \/ \E f \in FileIds : Expire(f)

ResolverSpec == Init /\ [][ResolverNext]_vars

----------------------------------------------------------------------------
(* The client's encoder of the chunks parameter (README, compressChunks),
   and a client that encodes a manifest and has parseChunks decode it. *)

\* The UTF-8 byte of a character of the model's texts.
CharCode(c) ==
    IF IsDigit(c) THEN 48 + DigitVal(c)
    ELSE IF c = "," THEN 44
    ELSE IF c = "-" THEN 45
    ELSE IF c = ":" THEN 58
    ELSE IF c = "a" THEN 97
    ELSE IF c = "b" THEN 98
    ELSE IF c = "x" THEN 120
    ELSE 63

\* new Blob([data]): the UTF-8 bytes of the text.
TextEncode(s) == [i \in 1..Len(s) |-> CharCode(s[i])]

\* CompressionStream('deflate-raw') on the texts the client compresses.
DeflateRaw(bytes) == (CHOOSE e \in InflateTable : e.inflated = bytes).deflated

\* The four characters btoa writes for a group of one, two or three bytes.
BtoaGroup(g) ==
    LET byte(i) == IF i <= Len(g) THEN g[i] ELSE 0
        n == (byte(1) * 256 + byte(2)) * 256 + byte(3)
        c1 == Base64Alphabet[(n \div 262144) + 1]
        c2 == Base64Alphabet[((n \div 4096) % 64) + 1]
        c3 == Base64Alphabet[((n \div 64) % 64) + 1]
        c4 == Base64Alphabet[(n % 64) + 1]
    IN  IF Len(g) = 3 THEN <<c1, c2, c3, c4>>
        ELSE IF Len(g) = 2 THEN <<c1, c2, c3, "=">>
        ELSE <<c1, c2, "=", "=">>

\* btoa(String.fromCharCode(...new Uint8Array(compressed)))
RECURSIVE Btoa(_)
Btoa(bytes) ==
    IF bytes = <<>> THEN <<>>
    ELSE IF Len(bytes) <= 3 THEN BtoaGroup(bytes)
    ELSE BtoaGroup(SubSeq(bytes, 1, 3)) \o Btoa(SubSeq(bytes, 4, Len(bytes)))

\* .replace(/=+$/g, '')
RECURSIVE StripPadding(_)
StripPadding(s) ==
    IF s # <<>> /\ s[Len(s)] = "=" THEN StripPadding(SubSeq(s, 1, Len(s) - 1))
    ELSE s

\* base64.replace(/\+/g, '-').replace(/\//g, '_').replace(/=+$/g, '')
Base64ToBase64Url(s) ==
    StripPadding([i \in 1..Len(s) |->
                     IF s[i] = "+" THEN "-" ELSE IF s[i] = "/" THEN "_" ELSE s[i]])

\* chunks.map(c => `${c.file_id}:${c.size}`).join(','): the plain form.
joinChunks(chunks) ==
    JoinComma([i \in 1..Len(chunks) |->
                  chunks[i].file_id \o <<":">> \o IntToStr(chunks[i].size)])

\* compressChunks: the compressed form.
compressChunks(chunks) ==
    Base64ToBase64Url(Btoa(DeflateRaw(TextEncode(joinChunks(chunks)))))

\* The manifests the client encodes: every manifest of one or two chunks
\* over two file ids and three sizes, one of three chunks and one of ten.
\* The base64 text of the last two holds '+' and '/'.
CodecSizes == {1, 3, 20}

CodecChunks == {[file_id |-> f, size |-> n] : f \in FileIds, n \in CodecSizes}

Chunk(f, n) == [file_id |-> f, size |-> n]

ThreeChunks == <<Chunk(FileB, 111), Chunk(FileB, 11), Chunk(FileB, 77)>>

TenChunks ==
    <<Chunk(FileB, 107), Chunk(FileB, 107), Chunk(FileA, 109), Chunk(FileA, 3),
      Chunk(FileB, 121), Chunk(FileA, 17), Chunk(FileB, 53), Chunk(FileB, 121),
      Chunk(FileA, 40), Chunk(FileB, 52)>>

Manifests ==
    { <<c>> : c \in CodecChunks }
    \cup { <<c, d>> : c \in CodecChunks, d \in CodecChunks }
    \cup { ThreeChunks, TenChunks }

\* The client writes the plain form of a manifest.
EncodePlain(m) ==
    /\ codec.phase = "idle"
    /\ codec' = [NoCodec EXCEPT !.phase = "encoded", !.manifest = m,
                                !.encoded = joinChunks(m)]
    /\ UNCHANGED <<pc, req, resp, plan, stream, cache, upstream, resolvers, issuer, uploader>>

\* The client writes the compressed form of a manifest.
EncodeCompressed(m) ==
    /\ codec.phase = "idle"
    /\ codec' = [NoCodec EXCEPT !.phase = "encoded", !.manifest = m,
                                !.compressed = TRUE,
                                !.encoded = compressChunks(m)]
    /\ UNCHANGED <<pc, req, resp, plan, stream, cache, upstream, resolvers, issuer, uploader>>

\* parseChunks reads what the client wrote.
Decode ==
    /\ codec.phase = "encoded"
    /\ \E r \in {parseChunks(codec.encoded)} :
           codec' = [codec EXCEPT !.phase = IF r.ok THEN "decoded" ELSE "failed",
                                  !.decoded = r.chunks]
    /\ UNCHANGED <<pc, req, resp, plan, stream, cache, upstream, resolvers, issuer, uploader>>

\* The client goes on to its next manifest.
NextManifest ==
    /\ codec.phase \in {"decoded", "failed"}
    /\ codec' = NoCodec
    /\ UNCHANGED <<pc, req, resp, plan, stream, cache, upstream, resolvers, issuer, uploader>>

CodecNext ==
    \/ \E m \in Manifests : EncodePlain(m)
    \/ \E m \in Manifests : EncodeCompressed(m)
    \/ Decode
    \/ NextManifest

CodecSpec == Init /\ [][CodecNext]_vars

----------------------------------------------------------------------------
(* The token endpoint as a state machine. *)

\* The clock of the worker, in seconds.
MaxNow == 2

Times == 1..MaxNow

\* The payload of a JWT of the model.
Payload(exp, scope) ==
    [iss |-> "awsl-telegram-storage", sub |-> "upload", iat |-> 0, exp |-> exp,
     scope |-> scope, chat_id |-> ""]

\* A JWT signed with the API_TOKEN whose payload was then replaced by one
\* without exp.
TamperedToken ==
    <<"HS256", Payload(NoExp, "upload"),
      [key |-> ApiTokenSecret, over |-> Payload(1, "upload")]>>

\* The values of the X-Api-Token header: absent, empty, the API_TOKEN,
\* another token, texts of two and of three pieces that are no JWT, JWTs
\* signed with the API_TOKEN or with another secret, with each exp and each
\* scope, and the tampered JWT.
HeaderTokens ==
    { NoHeader, <<"">>, API_TOKEN, <<"wrong">>, <<"a", "b">>, <<"a", "b", "c">>,
      TamperedToken }
    \cup { Sign(Payload(exp, scope), secret) :
             exp \in {NoExp} \cup Times,
             scope \in {"upload", "download"},
             secret \in {ApiTokenSecret, OtherSecret} }

\* The values of expires_in in the body of a token request.
ExpiresInValues == {NoExpiresIn, -1, 0, 1, DefaultExpiresIn, MAX_EXPIRY, MAX_EXPIRY + 1}

TokenRequests ==
    [token : {NoHeader, <<"">>, API_TOKEN, <<"wrong">>,
              Sign(Payload(NoExp, "upload"), ApiTokenSecret)},
     expires_in : ExpiresInValues,
     chat_id : {"", "-100"}]

\* A token request arrives at the time now and is answered.
TokenGenerate(q, now) ==
    /\ issuer.phase = "idle"
    /\ \E r \in {TokenGenerateHandle(q, now)} :
           issuer' = [phase |-> "done", req |-> q, now |-> now, status |-> r.status,
                      token |-> r.token, expires_in |-> r.expires_in]
    /\ UNCHANGED <<pc, req, resp, plan, stream, cache, upstream, resolvers, codec,
                   uploader>>

\* The token endpoint serves its next request.
TokenDone ==
    /\ issuer.phase = "done"
    /\ issuer' = NoIssuer
    /\ UNCHANGED <<pc, req, resp, plan, stream, cache, upstream, resolvers, codec,
                   uploader>>

TokenNext ==
    \/ \E q \in TokenRequests, now \in Times : TokenGenerate(q, now)
    \/ TokenDone

TokenSpec == Init /\ [][TokenNext]_vars

----------------------------------------------------------------------------
(* The upload endpoints guarded by validateAuth as a state machine:
   StreamingUploadEndpoint (handle and processFileStream) and
   MediaGroupUploadEndpoint. `calls` counts the calls made to
   api.telegram.org for the request. *)

\* The largest file of the model, in bytes.
MaxFileSize == 4

\* Values of the chunk_size field: absent, not positive, not a number, one
\* to three bytes, and one byte above the maximum.
ChunkSizeParams ==
    { <<>>, <<"0">>, <<"x">>, <<"1">>, <<"2">>, <<"3">>, IntToStr(MAX_CHUNK_SIZE + 1) }

StreamingUploadRequests ==
    [token : HeaderTokens, hasFile : {TRUE}, fileSize : 0..MaxFileSize,
     chunk_size : ChunkSizeParams]
    \cup [token : HeaderTokens, hasFile : {FALSE}, fileSize : {0}, chunk_size : {<<>>}]

\* The 401 of an endpoint whose validateAuth did not succeed.
Unauthorized(endpoint, token, now) ==
    [NoUpload EXCEPT !.phase = "done", !.endpoint = endpoint, !.token = token,
                     !.now = now, !.status = 401]

\* StreamingUploadEndpoint.handle up to the first reader.read() of
\* processFileStream.
StreamingUploadHandle(q, now) ==
    /\ uploader.phase = "idle"
    /\ \E auth \in validateAuth(q.token, now) :
           LET answered == [NoUpload EXCEPT !.phase = "done", !.endpoint = "stream",
                                           !.token = q.token, !.now = now]
               chunkSize == ChunkSizeOf(q.chunk_size)
           IN  uploader' =
                   IF ~auth.success THEN Unauthorized("stream", q.token, now)
                   ELSE IF ~q.hasFile \/ ~chunkSize.ok
                   THEN [answered EXCEPT !.status = 400]
                   ELSE [answered EXCEPT
                            !.phase = "reading",
                            !.fileSize = q.fileSize,
                            !.chunkSize = chunkSize.size,
                            !.totalChunks = Ceil(q.fileSize, chunkSize.size)]
    /\ UNCHANGED <<pc, req, resp, plan, stream, cache, upstream, resolvers, codec,
                   issuer>>

\* Where the loops of processFileStream stand once the buffer is b and the
\* reader has or has not answered done: uploading the next chunk, back at
\* reader.read(), or returning.
AfterBuffer(u, b, done) ==
    IF done /\ b = <<>> THEN [u EXCEPT !.phase = "done", !.status = 200]
    ELSE IF Len(b) >= u.chunkSize \/ done THEN [u EXCEPT !.phase = "uploading"]
    ELSE [u EXCEPT !.phase = "reading"]

\* reader.read() delivers the next n bytes of the file; they are appended
\* to the buffer. A byte is modelled by its offset in the file.
ReaderRead(n) ==
    /\ uploader.phase = "reading"
    /\ uploader.delivered + n <= uploader.fileSize
    /\ LET value == [k \in 1..n |-> uploader.delivered + k - 1]
           buffer == uploader.buffer \o value
       IN  uploader' = AfterBuffer([uploader EXCEPT !.delivered = @ + n,
                                                    !.buffer = buffer],
                                   buffer, FALSE)
    /\ UNCHANGED <<pc, req, resp, plan, stream, cache, upstream, resolvers, codec,
                   issuer>>

\* reader.read() answers done.
ReaderDone ==
    /\ uploader.phase = "reading"
    /\ uploader.delivered = uploader.fileSize
    /\ uploader' = AfterBuffer([uploader EXCEPT !.done = TRUE], uploader.buffer, TRUE)
    /\ UNCHANGED <<pc, req, resp, plan, stream, cache, upstream, resolvers, codec,
                   issuer>>

\* reader.read() rejects: handle answers 500.
ReaderFail ==
    /\ uploader.phase = "reading"
    /\ uploader' = [uploader EXCEPT !.phase = "done", !.status = 500]
    /\ UNCHANGED <<pc, req, resp, plan, stream, cache, upstream, resolvers, codec,
                   issuer>>

\* The record pushed for a chunk; `data` is not a field of the code's
\* record: it keeps the bytes that were sent as the document. `part` is the
\* number in the file name, 0 when the name is the plain filename.
ChunkRecordWholeBuffer(u, chunkData) ==
    [chunk_index |-> u.chunkIndex,
     file_size |-> Len(u.buffer),
     part |-> IF u.totalChunks > 1 THEN u.chunkIndex + 1 ELSE 0,
     data |-> chunkData]

ChunkRecord(u, chunkData) ==
    [chunk_index |-> u.chunkIndex,
     file_size |-> Len(chunkData),
     part |-> IF u.totalChunks > 1 THEN u.chunkIndex + 1 ELSE 0,
     data |-> chunkData]

\* One turn of the inner loop whose sendDocument call answers ok.
SendDocumentOk ==
    /\ uploader.phase = "uploading"
    /\ LET currentChunkSize == Min(uploader.chunkSize, Len(uploader.buffer))
           chunkData == SubSeq(uploader.buffer, 1, currentChunkSize)
           buffer == SubSeq(uploader.buffer, currentChunkSize + 1, Len(uploader.buffer))
       IN  uploader' =
               AfterBuffer([uploader EXCEPT
                               !.buffer = buffer,
                               !.calls = @ + 1,
                               !.chunks = Append(@, ChunkRecord(uploader, chunkData)),
                               !.bytesRead = @ + currentChunkSize,
                               !.chunkIndex = @ + 1],
                           buffer, uploader.done)
    /\ UNCHANGED <<pc, req, resp, plan, stream, cache, upstream, resolvers, codec,
                   issuer>>

\* One turn of the inner loop whose sendDocument call answers not ok: the
\* error is thrown and handle answers 500.
SendDocumentFail ==
    /\ uploader.phase = "uploading"
    /\ uploader' = [uploader EXCEPT !.phase = "done", !.status = 500, !.calls = @ + 1]
    /\ UNCHANGED <<pc, req, resp, plan, stream, cache, upstream, resolvers, codec,
                   issuer>>

\* The number of urls in the body of a media group request.
MaxUrls == 2

MediaGroupRequests == [token : HeaderTokens, urls : 0..MaxUrls]

\* MediaGroupUploadEndpoint.handle up to its fetch.
MediaGroupHandle(q, now) ==
    /\ uploader.phase = "idle"
    /\ \E auth \in validateAuth(q.token, now) :
           LET answered == [NoUpload EXCEPT !.phase = "done", !.endpoint = "group",
                                           !.token = q.token, !.now = now]
           IN  uploader' =
                   IF ~auth.success THEN Unauthorized("group", q.token, now)
                   ELSE IF q.urls < 1 THEN [answered EXCEPT !.status = 400]
                   ELSE [answered EXCEPT !.phase = "sending"]
    /\ UNCHANGED <<pc, req, resp, plan, stream, cache, upstream, resolvers, codec,
                   issuer>>

\* The sendMediaGroup call answers ok.
SendMediaGroupOk ==
    /\ uploader.phase = "sending"
    /\ uploader' = [uploader EXCEPT !.phase = "done", !.status = 200, !.calls = @ + 1]
    /\ UNCHANGED <<pc, req, resp, plan, stream, cache, upstream, resolvers, codec,
                   issuer>>

\* The sendMediaGroup call answers not ok.
SendMediaGroupFail ==
    /\ uploader.phase = "sending"
    /\ uploader' = [uploader EXCEPT !.phase = "done", !.status = 400, !.calls = @ + 1]
    /\ UNCHANGED <<pc, req, resp, plan, stream, cache, upstream, resolvers, codec,
                   issuer>>

\* The endpoint serves its next request.
UploadDone ==
    /\ uploader.phase = "done"
    /\ uploader' = NoUpload
    /\ UNCHANGED <<pc, req, resp, plan, stream, cache, upstream, resolvers, codec,
                   issuer>>

UploadNext ==
    \/ \E q \in StreamingUploadRequests, now \in Times : StreamingUploadHandle(q, now)
    \/ \E n \in 1..MaxPiece : ReaderRead(n)
    \/ ReaderDone
    \/ ReaderFail
    \/ SendDocumentOk
    \/ SendDocumentFail
    \/ \E q \in MediaGroupRequests, now \in Times : MediaGroupHandle(q, now)
    \/ SendMediaGroupOk
    \/ SendMediaGroupFail
    \/ UploadDone

UploadSpec == Init /\ [][UploadNext]_vars

\* The header is API_TOKEN, or a JWT signed with API_TOKEN over its own
\* payload that is not past its expiry at `now` and has scope 'upload'.
Authorized(token, now) ==
    \/ Len(token) = 1 /\ token = API_TOKEN
    \/ /\ Len(token) = 3
       /\ token[1] = "HS256"
       /\ token[3] = [key |-> ApiTokenSecret, over |-> token[2]]
       /\ token[2].exp = NoExp \/ token[2].exp >= now
       /\ token[2].scope = "upload"

\* The header is absent or empty, is a one-piece token other than API_TOKEN,
\* or is a JWT whose signature is not API_TOKEN's over its payload, whose
\* expiry is before `now`, or whose scope is not 'upload'.
Refused(token, now) ==
    \/ Len(token) # 3 /\ token # API_TOKEN
    \/ /\ Len(token) = 3
       /\ \/ token[1] # "HS256"
          \/ token[3] # [key |-> ApiTokenSecret, over |-> token[2]]
          \/ token[2].exp # NoExp /\ token[2].exp < now
          \/ token[2].scope # "upload"

\* C23: an upload endpoint guarded by validateAuth (streaming upload, media
\* group upload) makes an upstream Telegram call only if the X-Api-Token
\* header equals API_TOKEN or is a JWT that verifies against API_TOKEN, is
\* not expired and has scope 'upload'; every other request is answered 401
\* and causes no upstream call.
C23_UploadOnlyIfAuthorized ==
    uploader.phase # "idle" =>
        /\ uploader.calls > 0 => Authorized(uploader.token, uploader.now)
        /\ uploader.status # 401 /\ uploader.phase # "done" =>
               Authorized(uploader.token, uploader.now)
        /\ Refused(uploader.token, uploader.now) =>
               /\ uploader.phase = "done"
               /\ uploader.status = 401
               /\ uploader.calls = 0

\* A media group request carrying a JWT has made its sendMediaGroup call.
C23_Witness ==
    /\ uploader.endpoint = "group"
    /\ Len(uploader.token) = 3
    /\ uploader.calls > 0

\* A streaming upload whose JWT has scope 'download' was answered 401.
C23_RefusedWitness ==
    /\ uploader.endpoint = "stream"
    /\ Len(uploader.token) = 3
    /\ uploader.token[1] = "HS256"
    /\ uploader.token[3] = [key |-> ApiTokenSecret, over |-> uploader.token[2]]
    /\ uploader.token[2].scope = "download"
    /\ uploader.status = 401

RECURSIVE SumFileSize(_)
SumFileSize(chunks) ==
    IF chunks = <<>> THEN 0 ELSE Head(chunks).file_size + SumFileSize(Tail(chunks))

RECURSIVE SentData(_)
SentData(chunks) ==
    IF chunks = <<>> THEN <<>> ELSE Head(chunks).data \o SentData(Tail(chunks))

\* The bytes sent so far followed by the buffered ones are the bytes the
\* reader has delivered, in file order, and every record but the last one
\* sent has the chunk size.
UploadsInFileOrder ==
    uploader.endpoint = "stream" /\ uploader.status # 401 /\ uploader.status # 400 =>
        /\ SentData(uploader.chunks) \o uploader.buffer
               = [k \in 1..uploader.delivered |-> k - 1]
        /\ uploader.bytesRead = Len(SentData(uploader.chunks))
        /\ uploader.chunkIndex = Len(uploader.chunks)
        /\ uploader.status # 500 => uploader.calls = Len(uploader.chunks)

\* The records of a successful processFileStream.
ReturnedChunkRecords ==
    uploader.endpoint = "stream" /\ uploader.phase = "done" /\ uploader.status = 200 =>
        LET N == uploader.fileSize
            C == uploader.chunkSize
            n == Len(uploader.chunks)
        IN  /\ n = Ceil(N, C)
            /\ n = uploader.totalChunks
            /\ \A i \in 1..n :
                   /\ uploader.chunks[i].chunk_index = i - 1
                   /\ uploader.chunks[i].file_size = IF i < n THEN C ELSE N - (n - 1) * C
                   /\ Len(uploader.chunks[i].data) = uploader.chunks[i].file_size
            /\ SumFileSize(uploader.chunks) = N
            /\ SentData(uploader.chunks) = [k \in 1..N |-> k - 1]

----------------------------------------------------------------------------
(* Properties. *)

\* A request has been answered.
Served == pc # "idle"

\* The concatenation of all chunk contents in manifest order.
RECURSIVE ConcatContent(_)
ConcatContent(chunks) ==
    IF chunks = <<>> THEN <<>>
    ELSE RemoteContent(Head(chunks).fileId) \o ConcatContent(Tail(chunks))

\* Every declared size is positive and is the real length of the remote object.
SizesMatchRemote(chunks) ==
    \A i \in 1..Len(chunks) :
        chunks[i].size.val > 0 /\ chunks[i].size.val = RemoteLength(chunks[i].fileId)

PositiveSizes(chunks) == \A i \in 1..Len(chunks) : chunks[i].size.val > 0

NonNegativeSizes(chunks) == \A i \in 1..Len(chunks) : chunks[i].size.val >= 0

IsPrefix(s, t) == Len(s) <= Len(t) /\ SubSeq(t, 1, Len(s)) = s

\* Bytes start..end (inclusive, counted from 0) of the whole content.
RequestedBytes == SubSeq(ConcatContent(plan.chunks), plan.start + 1, plan.end + 1)

\* C1: when every declared size is positive and equals the real length of
\* its remote object, the bytes the stream has emitted are, at any moment, a
\* prefix of bytes start..end of the concatenated chunk contents, and once the
\* stream is closed they are exactly those bytes.
C1_StreamEmitsRequestedBytes ==
    (resp.body.kind = "stream" /\ SizesMatchRemote(plan.chunks)) =>
        /\ 0 <= plan.start /\ plan.start <= plan.end /\ plan.end <= plan.totalSize - 1
        /\ IsPrefix(stream.emitted, RequestedBytes)
        /\ (stream.state = "closed" => stream.emitted = RequestedBytes)

\* A closed stream over three tasks: a partial first chunk, a whole middle
\* chunk and a partial last chunk.
C1_Witness ==
    /\ resp.body.kind = "stream" /\ SizesMatchRemote(plan.chunks)
    /\ stream.state = "closed"
    /\ Len(plan.tasks) = 3
    /\ ~plan.tasks[1].fullChunk /\ plan.tasks[2].fullChunk /\ ~plan.tasks[3].fullChunk
    /\ plan.tasks[1].fileId # plan.tasks[2].fileId
    /\ plan.decompressed = FALSE
    /\ stream.emitted = RequestedBytes

\* C2: for every manifest the handler accepts and every range with
\* start <= end < totalSize, the slice lengths of the tasks sum to
\* end - start + 1.
C2_SliceLengthsSumToRange ==
    (plan.parsed /\ plan.start <= plan.end /\ plan.end < plan.totalSize) =>
        ContentLength(plan.tasks) = plan.end - plan.start + 1

\* The same, for the manifests without a negative size.
C2_SliceLengthsSumToRangeNonNegative ==
    (plan.parsed /\ NonNegativeSizes(plan.chunks)
     /\ plan.start <= plan.end /\ plan.end < plan.totalSize) =>
        ContentLength(plan.tasks) = plan.end - plan.start + 1

\* The absolute byte interval [AbsStart, AbsEnd) of a task.
AbsStart(t) == ChunkStart(plan.chunks, t.index) + t.sliceStart

AbsEnd(t) == ChunkStart(plan.chunks, t.index) + t.sliceEnd

TasksOrderedDisjoint ==
    \A i \in 1..(Len(plan.tasks) - 1) :
        /\ plan.tasks[i].index < plan.tasks[i + 1].index
        /\ AbsStart(plan.tasks[i]) < AbsStart(plan.tasks[i + 1])
        /\ AbsEnd(plan.tasks[i]) <= AbsStart(plan.tasks[i + 1])

\* C3: the tasks are in manifest order, no chunk gives two tasks, and the
\* absolute byte intervals of consecutive tasks are disjoint and strictly
\* ascending.
C3_TasksOrderedDisjoint == plan.parsed => TasksOrderedDisjoint

\* The same, for the manifests without a negative size.
C3_TasksOrderedDisjointNonNegative ==
    (plan.parsed /\ NonNegativeSizes(plan.chunks)) => TasksOrderedDisjoint

\* The text of the manifest: the parameter itself when it has a ':', else
\* what it decompresses to.
ManifestText(q) ==
    IF Includes(q.chunks, ":") THEN [ok |-> TRUE, text |-> q.chunks]
    ELSE decompressData(q.chunks)

\* The entry declares a size that is a number and is zero or negative.
NonPositiveEntry(entry) ==
    LET parts == Split(entry, ":")
    IN  Len(parts) >= 2 /\ ~ParseInt(parts[2]).nan /\ ParseInt(parts[2]).val <= 0

HasNonPositiveEntry(q) ==
    /\ q.hasChunks /\ q.chunks # <<>> /\ ManifestText(q).ok
    /\ \E i \in 1..Len(Split(ManifestText(q).text, ",")) :
           NonPositiveEntry(Split(ManifestText(q).text, ",")[i])

\* C4: a manifest with an entry whose declared size is zero or negative is
\* answered 400.
C4_NonPositiveSizeRejected == (Served /\ HasNonPositiveEntry(req)) => resp.status = 400

\* An optional '-' and then digits only.
IsDecimalInteger(s) ==
    LET u == IF s # <<>> /\ Head(s) = "-" THEN Tail(s) ELSE s
    IN  u # <<>> /\ \A i \in 1..Len(u) : IsDigit(u[i])

\* An optional '-' and then at least one digit, whatever follows.
HasLeadingInteger(s) ==
    LET u == IF s # <<>> /\ Head(s) = "-" THEN Tail(s) ELSE s
    IN  u # <<>> /\ IsDigit(Head(u))

\* The entry has no identifier, no size, or a size that is not a number.
\* `strict`: a number is digits only; else: a number starts with digits.
MalformedEntry(entry, strict) ==
    LET parts == Split(entry, ":")
    IN  \/ parts[1] = <<>>
        \/ Len(parts) < 2
        \/ (strict /\ ~IsDecimalInteger(parts[2]))
        \/ (~strict /\ ~HasLeadingInteger(parts[2]))

MalformedManifest(q, strict) ==
    /\ q.hasChunks
    /\ \/ q.chunks = <<>>
       \/ /\ ManifestText(q).ok
          /\ \E i \in 1..Len(Split(ManifestText(q).text, ",")) :
                 MalformedEntry(Split(ManifestText(q).text, ",")[i], strict)

IsJsonError400 ==
    /\ resp.status = 400
    /\ resp.body.kind = "json"
    /\ resp.body.success = FALSE
    /\ resp.body.error # ""

\* C5: a request whose manifest has an entry with no identifier, with a size
\* that is not a decimal number, or with no size, or whose chunks value is
\* empty, is answered 400 with the JSON body {success: false, error}.
C5_MalformedManifestRejected ==
    (Served /\ MalformedManifest(req, TRUE)) => IsJsonError400

\* The same, a size counting as a number as soon as it starts with digits
\* (after an optional '-'): the sizes parseInt does not turn into NaN.
C5_UnparsableManifestRejected ==
    (Served /\ MalformedManifest(req, FALSE)) => IsJsonError400

\* C6: a range with start >= totalSize or start > end is answered 416 with
\* Content-Range: bytes */<sum of the declared sizes>.
C6_UnsatisfiableRangeIs416 ==
    (plan.parsed /\ (plan.start >= plan.totalSize \/ plan.start > plan.end)) =>
        /\ resp.status = 416
        /\ "Content-Range" \in DOMAIN resp.headers
        /\ resp.headers["Content-Range"] =
               StrBytesStar \o IntToStr(SumSeq([i \in 1..Len(plan.chunks) |->
                                                   plan.chunks[i].size.val]))

\* An inverted range inside the content: 0 <= end < start < totalSize.
C6_Witness ==
    /\ plan.parsed /\ PositiveSizes(plan.chunks)
    /\ plan.start > plan.end /\ plan.start < plan.totalSize
    /\ resp.status = 416

C8_RangeHeaderParsing ==
    plan.parsed =>
        /\ \A s \in RangeNumerals \cup { <<"5">> }, e \in RangeNumerals \cup { <<"1", "5">>, <<"9", "9">> } :
               (req.hasRange /\ req.range = StrBytesEq \o s \o <<"-">> \o e) =>
                   /\ plan.start = IF s = <<>> THEN 0 ELSE DecimalValue(s)
                   /\ plan.end = IF e = <<>> THEN plan.totalSize - 1
                                 ELSE Min(DecimalValue(e), plan.totalSize - 1)
                   /\ resp.status \in {206, 416}
        /\ (req.hasRange /\ req.range = EmbeddedRangeHeader) =>
               /\ plan.start = 1
               /\ plan.end = Min(2, plan.totalSize - 1)
               /\ resp.status \in {206, 416}
        /\ (~req.hasRange \/ req.range = <<>> \/ req.range \in NonMatchingRangeHeaders) =>
               /\ plan.start = 0
               /\ plan.end = plan.totalSize - 1
               /\ resp.status \in {200, 416}

\* bytes=1-99 on a manifest shorter than 100 bytes: 206 with the end clamped.
C8_Witness ==
    /\ plan.parsed /\ req.hasRange
    /\ req.range = StrBytesEq \o <<"1", "-", "9", "9">>
    /\ resp.status = 206 /\ plan.start = 1 /\ plan.end = plan.totalSize - 1
    /\ plan.totalSize > 2

\* The fields of a task that the code's ChunkTask has.
CodeTask(t) ==
    [fileId |-> t.fileId, sliceStart |-> t.sliceStart, sliceEnd |-> t.sliceEnd,
     fullChunk |-> t.fullChunk]

PartialContentHeaders ==
    /\ "Content-Range" \in DOMAIN resp.headers
    /\ resp.headers["Content-Range"] =
           StrBytesSp \o IntToStr(plan.start) \o <<"-">> \o IntToStr(plan.end)
               \o <<"/">> \o IntToStr(plan.totalSize)
    /\ resp.headers["Content-Length"] = IntToStr(plan.end - plan.start + 1)

ExampleRequest ==
    /\ req.chunks = <<"a", ":", "1", "0", ",", "b", ":", "2", "0">>
    /\ req.hasRange /\ req.range = StrBytesEq \o <<"5", "-", "1", "5">>

ExampleResponse ==
    /\ resp.status = 206
    /\ [i \in 1..Len(plan.tasks) |-> CodeTask(plan.tasks[i])] =
           << [fileId |-> FileA, sliceStart |-> 5, sliceEnd |-> 10, fullChunk |-> FALSE],
              [fileId |-> FileB, sliceStart |-> 0, sliceEnd |-> 6, fullChunk |-> FALSE] >>
    /\ resp.headers["Content-Range"] =
           <<"b", "y", "t", "e", "s", " ", "5", "-", "1", "5", "/", "3", "0">>
    /\ resp.headers["Content-Length"] = <<"1", "1">>

\* C9: every 206 response has Content-Range: bytes <start>-<end>/<totalSize>
\* and Content-Length end - start + 1; a:10,b:20 with bytes=5-15 gives the
\* tasks a 5..10 and b 0..6, 206, bytes 5-15/30 and Content-Length 11.
C9_PartialContentHeaders ==
    /\ resp.status = 206 => PartialContentHeaders
    /\ (Served /\ ExampleRequest) => ExampleResponse

\* The same, for the manifests without a negative size.
C9_PartialContentHeadersNonNegative ==
    /\ (resp.status = 206 /\ NonNegativeSizes(plan.chunks)) => PartialContentHeaders
    /\ (Served /\ ExampleRequest) => ExampleResponse

\* C10: a manifest with positive sizes and no Range header is answered 200
\* with Content-Length = the total declared size, Accept-Ranges: bytes and no
\* Content-Range.
C10_FullResponse ==
    (Served /\ plan.parsed /\ PositiveSizes(plan.chunks) /\ ~req.hasRange) =>
        /\ resp.status = 200
        /\ resp.headers["Content-Length"] =
               IntToStr(SumSeq([i \in 1..Len(plan.chunks) |-> plan.chunks[i].size.val]))
        /\ resp.headers["Accept-Ranges"] = StrBytes
        /\ "Content-Range" \notin DOMAIN resp.headers

\* A manifest of three chunks served whole.
C10_Witness ==
    /\ Served /\ plan.parsed /\ PositiveSizes(plan.chunks) /\ ~req.hasRange
    /\ Len(plan.chunks) = 3 /\ resp.status = 200

\* The sum of (sliceEnd - sliceStart) over the planned tasks.
PlannedLength ==
    SumSeq([i \in 1..Len(plan.tasks) |->
               plan.tasks[i].sliceEnd - plan.tasks[i].sliceStart])

\* C11: the Content-Length of every 200/206 response is the sum of
\* (sliceEnd - sliceStart) over the planned tasks, and it is the number of
\* bytes a stream that closes has emitted when every planned chunk has its
\* declared length.
C11_ContentLengthIsPlannedLength ==
    resp.status \in {200, 206} =>
        /\ resp.headers["Content-Length"] = IntToStr(PlannedLength)
        /\ (stream.state = "closed"
            /\ \A i \in 1..Len(plan.tasks) :
                   plan.chunks[plan.tasks[i].index].size.val
                       = RemoteLength(plan.tasks[i].fileId))
               => resp.headers["Content-Length"] = IntToStr(Len(stream.emitted))

\* C12: a call of getFilePath that found the entry in the cache made no
\* getFile call and returned the cached location; a call that did not find
\* it made exactly one getFile call and, when that succeeded, returned only
\* after the location was in the cache; no call makes more than one lookup.
C12_CacheFirst ==
    \A i \in 1..MaxResolvers :
        /\ resolvers[i].calls <= 1
        /\ resolvers[i].held => resolvers[i].calls = 0
        /\ resolvers[i].phase = "done" =>
               /\ resolvers[i].result = RemotePath(resolvers[i].fileId)
               /\ resolvers[i].held \/ (resolvers[i].calls = 1 /\ resolvers[i].stored)
        /\ resolvers[i].phase \in {"put", "failed"} =>
               (~resolvers[i].held /\ resolvers[i].calls = 1)

\* One call stored the location of a file id and a later call for the same
\* id found it and made no lookup.
C12_Witness ==
    \E i, j \in 1..MaxResolvers :
        /\ i # j
        /\ resolvers[i].phase = "done" /\ resolvers[i].stored /\ resolvers[i].calls = 1
        /\ resolvers[j].phase = "done" /\ resolvers[j].held /\ resolvers[j].calls = 0
        /\ resolvers[i].fileId = resolvers[j].fileId
        /\ resolvers[i].result = resolvers[j].result

\* C13: under every interleaving of the callers, an entry of the cache is
\* never replaced by a different location, every entry is the location of its
\* file id, and the callers that returned for the same file id returned the
\* same location.
C13_CacheEntriesImmutable ==
    /\ [][\A f \in DOMAIN cache \cap DOMAIN cache' : cache'[f] = cache[f]]_vars
    /\ [](\A f \in DOMAIN cache : cache[f] = RemotePath(f))
    /\ [](\A i, j \in 1..MaxResolvers :
              (/\ resolvers[i].phase = "done" /\ resolvers[j].phase = "done"
               /\ resolvers[i].fileId = resolvers[j].fileId)
                  => resolvers[i].result = resolvers[j].result)

\* Two callers missed the same cold file id, both looked it up and both
\* stored it, while the location of the other file id is cached too.
C13_Witness ==
    /\ resolvers[1].phase = "done" /\ resolvers[2].phase = "done"
    /\ resolvers[1].fileId = resolvers[2].fileId
    /\ resolvers[1].calls = 1 /\ resolvers[2].calls = 1
    /\ resolvers[1].stored /\ resolvers[2].stored
    /\ DOMAIN cache = FileIds

\* The bytes a task gives when it runs to its end: the whole remote object
\* for a fullChunk task, else the slice of it.
TaskBytes(t) ==
    IF t.fullChunk THEN RemoteContent(t.fileId)
    ELSE Slice(RemoteContent(t.fileId), t.sliceStart, t.sliceEnd)

\* The bytes of the first k tasks of the plan, in task order.
RECURSIVE BytesOfTasks(_)
BytesOfTasks(k) ==
    IF k = 0 THEN <<>> ELSE BytesOfTasks(k - 1) \o TaskBytes(plan.tasks[k])

\* C14: while task k is being resolved or fetched, every byte of the tasks
\* before it has been enqueued and no byte of task k or of a later task has;
\* at any moment the bytes enqueued are those of the earlier tasks followed
\* by a prefix of the bytes of task k; the tasks are in manifest order; and
\* no more files were fetched than tasks were started.
C14_TasksRunOneAfterAnother ==
    (resp.body.kind = "stream" /\ stream.taskIndex >= 1) =>
        /\ stream.phase \in {"match", "getFile", "fetch"} =>
               stream.emitted = BytesOfTasks(stream.taskIndex - 1)
        /\ IsPrefix(BytesOfTasks(stream.taskIndex - 1), stream.emitted)
        /\ IsPrefix(stream.emitted, BytesOfTasks(stream.taskIndex))
        /\ upstream.fetch <= stream.taskIndex
        /\ \A i \in 1..(Len(plan.tasks) - 1) :
               plan.tasks[i].index < plan.tasks[i + 1].index

\* The file of the second task is about to be fetched and the bytes of the
\* first task, and only they, have been enqueued.
C14_Witness ==
    /\ resp.body.kind = "stream" /\ Len(plan.tasks) >= 2
    /\ stream.taskIndex = 2 /\ stream.phase = "fetch"
    /\ stream.emitted = TaskBytes(plan.tasks[1]) /\ stream.emitted # <<>>
    /\ upstream.fetch = 1

\* Every sliced task of the plan ends within the real length of its file.
SlicesFit ==
    \A i \in 1..Len(plan.tasks) :
        plan.tasks[i].fullChunk
            \/ plan.tasks[i].sliceEnd <= RemoteLength(plan.tasks[i].fileId)

\* A closed stream has taken every task and holds the bytes of all of them.
ClosedAfterLastTask ==
    stream.state = "closed" =>
        /\ stream.taskIndex = Len(plan.tasks)
        /\ stream.phase = "idle"
        /\ stream.emitted = BytesOfTasks(Len(plan.tasks))

\* A closed stream stays as it is until the request is over.
NothingAfterClose ==
    stream.state = "closed" =>
        (stream' = stream \/ stream' = NoStream) /\ (stream' = stream => upstream' = upstream)

\* C15 as stated: when the consumer keeps pulling and every upstream call
\* succeeds and ends, a stream that was opened eventually closes; it closes
\* only with every task taken and the bytes of the last task emitted, and
\* nothing is emitted after it closed.
C15_StreamEventuallyCloses ==
    /\ []ClosedAfterLastTask
    /\ [][NothingAfterClose]_vars
    /\ (stream.state = "readable") ~> (stream.state = "closed")

\* C15 amended: the same, for a stream whose sliced tasks all end within
\* the real length of their file.
C15_StreamClosesWhenSlicesFit ==
    /\ []ClosedAfterLastTask
    /\ [][NothingAfterClose]_vars
    /\ (stream.state = "readable" /\ SlicesFit) ~> (stream.state = "closed")

\* A stream of two tasks or more, the last of them sliced, has closed with
\* the bytes of all its tasks.
C15_Witness ==
    /\ stream.state = "closed" /\ Len(plan.tasks) >= 2
    /\ ~plan.tasks[Len(plan.tasks)].fullChunk
    /\ stream.taskIndex = Len(plan.tasks)
    /\ stream.emitted = BytesOfTasks(Len(plan.tasks)) /\ stream.emitted # <<>>

\* The errors thrown by getFilePath and fetchChunkResponse.
ResolveOrFetchErrors == {"Failed to get file info", "Failed to download chunk"}

\* An errored stream carries its error and its pull() has returned.
ErroredWithError ==
    stream.state = "errored" =>
        /\ stream.error # "" /\ stream.phase = "idle" /\ pc = "done"
        /\ stream.error = "Failed to get file info" => upstream.getFile >= 1
        /\ stream.error = "Failed to download chunk" => upstream.fetch >= 1

\* A readable stream whose getFile or download did not go on to the next
\* step of the task has become errored with the error of that call.
FailureErrorsStream ==
    (stream.state = "readable" /\ stream.phase \in {"getFile", "fetch"}
        /\ stream'.phase = "idle") =>
        /\ stream'.state = "errored"
        /\ stream'.error = IF stream.phase = "getFile" THEN "Failed to get file info"
                           ELSE "Failed to download chunk"
        /\ stream'.taskIndex = stream.taskIndex

\* After a failed getFile or download the stream does nothing more: no
\* getFile, no download, no task taken, no byte enqueued.
NothingAfterFailure ==
    (stream.error \in ResolveOrFetchErrors /\ stream' # NoStream) =>
        /\ upstream' = upstream
        /\ stream' = stream

\* C16: when the resolve or the fetch of a task fails the stream becomes
\* errored with the error of that call, and afterwards no upstream call is
\* made for the stream, the failed task is not taken again and no later
\* task is started.
C16_FailureAbortsStream ==
    /\ []ErroredWithError
    /\ [][FailureErrorsStream]_vars
    /\ [][NothingAfterFailure]_vars

\* The download of the first of several tasks failed after its getFile
\* succeeded: the stream is errored with that error and tasks remain.
C16_Witness ==
    /\ stream.state = "errored" /\ stream.error = "Failed to download chunk"
    /\ stream.taskIndex = 1 /\ Len(plan.tasks) >= 2
    /\ upstream = [getFile |-> 1, fetch |-> 1]

\* The file of task t has fewer bytes than the manifest declares for it.
ShortChunk(t) == RemoteLength(t.fileId) < plan.chunks[t.index].size.val

\* C17: a sliced task on a chunk whose file is shorter than its declared
\* size ends with the stream errored and with no byte of it enqueued.
C17_ShortChunkSliceFails ==
    [][(/\ stream.state = "readable" /\ stream.phase = "buffer"
        /\ stream'.phase = "idle"
        /\ ShortChunk(CurrentTask))
       => (stream'.state = "errored" /\ stream'.emitted = stream.emitted)]_vars

\* A sliced task that ends on a readable stream has enqueued bytes
\* sliceStart..sliceEnd-1 of its file, sliceEnd - sliceStart > 0 of them.
SlicedTaskEmitsItsSlice ==
    [][(/\ stream.state = "readable" /\ stream.phase = "buffer"
        /\ stream'.phase = "idle" /\ stream'.state = "readable")
       => (/\ CurrentTask.sliceEnd > CurrentTask.sliceStart
           /\ CurrentTask.sliceEnd <= RemoteLength(CurrentTask.fileId)
           /\ stream'.emitted =
                  stream.emitted \o SubSeq(RemoteContent(CurrentTask.fileId),
                                           CurrentTask.sliceStart + 1,
                                           CurrentTask.sliceEnd))]_vars

\* The tasks of the plan that are loaded whole into memory and sliced.
SlicedTasks == {i \in 1..Len(plan.tasks) : ~plan.tasks[i].fullChunk}

\* C18: in a plan of calculateTasks every task strictly between the first
\* and the last is a fullChunk task, so at most two tasks are sliced.
C18_OnlyEndsPartial ==
    /\ \A i \in 2..(Len(plan.tasks) - 1) : plan.tasks[i].fullChunk
    /\ Cardinality(SlicedTasks) <= 2

\* The same for manifests without a negative size.
OnlyEndsPartialNonNegative ==
    NonNegativeSizes(plan.chunks) => C18_OnlyEndsPartial

\* On a cancelled stream no task is taken.
NoTaskAfterCancel ==
    [][(stream.state = "cancelled" /\ stream'.state = "cancelled")
       => stream'.taskIndex = stream.taskIndex]_vars

\* C19: once the consumer cancelled the stream, no download is started, no
\* further byte of a remote body is read and no task is taken.
C19_CancelAbandonsFetch ==
    [][(stream.state = "cancelled" /\ stream'.state = "cancelled")
       => (/\ upstream'.fetch = upstream.fetch
           /\ stream'.read = stream.read
           /\ stream'.taskIndex = stream.taskIndex)]_vars

\* The pairs (identifier, size) of a decoded list are those of the manifest,
\* in the same order.
SameChunks(decoded, manifest) ==
    /\ Len(decoded) = Len(manifest)
    /\ \A i \in 1..Len(manifest) :
           /\ decoded[i].fileId = manifest[i].file_id
           /\ decoded[i].size = Num(manifest[i].size)

\* C20: parseChunks never fails on what the client encoded, in the plain or
\* in the compressed form, and the list it returns has the pairs of the
\* manifest in the same order; the plain form is read as plain and the
\* compressed form as compressed.
C20_RoundTrip ==
    /\ codec.phase # "failed"
    /\ codec.phase \in {"encoded", "decoded"} =>
           IsCompressedFormat(codec.encoded) = codec.compressed
    /\ codec.phase = "decoded" => SameChunks(codec.decoded, codec.manifest)

\* The manifest of ten chunks went through the compressed form, whose text
\* holds '-' and '_', and came back.
C20_Witness ==
    /\ codec.phase = "decoded" /\ codec.compressed
    /\ codec.manifest = TenChunks
    /\ Includes(codec.encoded, "-") /\ Includes(codec.encoded, "_")
    /\ SameChunks(codec.decoded, TenChunks)

\* The errors of the length checks of the sliced branch.
LengthCheckErrors ==
    {"Empty response from Telegram", "Slice end exceeds data length",
     "Sliced data is empty"}

\* Every task of the plan is a fullChunk task.
AllFullChunk == \A i \in 1..Len(plan.tasks) : plan.tasks[i].fullChunk

\* The real lengths of the files of the tasks, summed.
RealLength ==
    SumSeq([i \in 1..Len(plan.tasks) |-> RemoteLength(plan.tasks[i].fileId)])

\* C21: a fullChunk task is never failed by a length check, and a stream of
\* fullChunk tasks that closes has emitted the whole content of every file
\* as it is, so that the number of bytes emitted is the Content-Length sent
\* only when the real lengths sum to the declared ones.
C21_PassthroughUnchecked ==
    /\ (stream.state = "errored" /\ stream.error \in LengthCheckErrors)
           => ~CurrentTask.fullChunk
    /\ (resp.status \in {200, 206} /\ stream.state = "closed" /\ AllFullChunk) =>
           /\ Len(stream.emitted) = RealLength
           /\ stream.emitted = BytesOfTasks(Len(plan.tasks))
           /\ (resp.headers["Content-Length"] = IntToStr(Len(stream.emitted)))
                  <=> (RealLength = PlannedLength)

\* A stream of fullChunk tasks closed without error although a file is
\* shorter than declared: fewer bytes were emitted than Content-Length says.
C21_Witness ==
    /\ resp.status = 200 /\ stream.state = "closed" /\ stream.error = ""
    /\ AllFullChunk /\ Len(plan.tasks) >= 2
    /\ \E i \in 1..Len(plan.tasks) : ShortChunk(plan.tasks[i])
    /\ resp.headers["Content-Length"] # IntToStr(Len(stream.emitted))

\* The chunk of task t lies whole inside the requested range.
ChunkInsideRange(t) ==
    /\ ChunkStart(plan.chunks, t.index) >= plan.start
    /\ ChunkStart(plan.chunks, t.index) + plan.chunks[t.index].size.val - 1 <= plan.end

\* C24: every task of a plan has 0 <= sliceStart < sliceEnd <= chunk.size,
\* and its fullChunk is true exactly when sliceStart = 0 and sliceEnd =
\* chunk.size, which is exactly when its chunk lies inside [start, end].
C24_TaskBounds ==
    \A i \in 1..Len(plan.tasks) :
        LET t == plan.tasks[i]
            size == plan.chunks[t.index].size.val
        IN  /\ 0 <= t.sliceStart /\ t.sliceStart < t.sliceEnd /\ t.sliceEnd <= size
            /\ t.fullChunk <=> (t.sliceStart = 0 /\ t.sliceEnd = size)
            /\ t.fullChunk <=> ChunkInsideRange(t)

\* A plan of three tasks: a slice that starts inside its chunk, a whole
\* chunk, and a slice that starts at 0 and ends before the end of its chunk.
C24_Witness ==
    /\ Len(plan.tasks) = 3
    /\ ~plan.tasks[1].fullChunk /\ plan.tasks[1].sliceStart > 0
    /\ plan.tasks[2].fullChunk
    /\ ~plan.tasks[3].fullChunk /\ plan.tasks[3].sliceStart = 0
    /\ plan.tasks[3].sliceEnd < plan.chunks[3].size.val

\* A request answered 400 or 416 has no stream and made no upstream call,
\* and an upstream call was made only for a request answered 200 or 206.
RejectedWithoutEffect ==
    /\ resp.status \in {400, 416} =>
           /\ stream = NoStream /\ upstream = NoCalls
           /\ resp.body.kind # "stream" /\ pc = "done"
    /\ upstream # NoCalls => resp.status \in {200, 206}

\* Answering a request with 400 or 416, and everything up to the end of
\* that request, leaves the path cache as it was.
RejectedKeepsCache ==
    (resp.status \in {400, 416} \/ resp'.status \in {400, 416}) => cache' = cache

\* C25: a stream request answered 400 or 416 makes no getFile call and no
\* download, creates no stream and leaves the path cache unchanged; upstream
\* calls are made only for a request whose 200/206 response was built.
C25_EagerValidation ==
    /\ []RejectedWithoutEffect
    /\ [][RejectedKeepsCache]_vars

\* A request was answered 416 when the cache held the paths of both files.
C25_Witness ==
    /\ resp.status = 416 /\ pc = "done"
    /\ DOMAIN cache = {FileA, FileB}
    /\ upstream = NoCalls /\ stream = NoStream

\* C26: for a manifest whose sizes are all positive, calculateTasks gives no
\* task exactly when start >= totalSize or start > end, so a 416 of such a
\* manifest is always the 416 of the range check.
C26_EmptyPlanIffUnsatisfiable ==
    (plan.parsed /\ PositiveSizes(plan.chunks)) =>
        /\ (calculateTasks(plan.chunks, plan.start, plan.end) = <<>>)
               <=> (plan.start >= plan.totalSize \/ plan.start > plan.end)
        /\ resp.status = 416
               => (plan.start >= plan.totalSize \/ plan.start > plan.end)
        /\ resp.status \in {200, 206} => plan.tasks # <<>>

\* A manifest of positive sizes was asked for a range that starts inside
\* the content and ends before its start: no task, 416.
C26_Witness ==
    /\ plan.parsed /\ PositiveSizes(plan.chunks) /\ Len(plan.chunks) >= 2
    /\ resp.status = 416
    /\ plan.start > plan.end /\ plan.start < plan.totalSize
    /\ calculateTasks(plan.chunks, plan.start, plan.end) = <<>>

\* An errored stream belongs to a response whose status is the 200 or 206
\* chosen and whose Content-Length is that of the plan.
ErroredUnderCommittedHeaders ==
    stream.state = "errored" =>
        /\ resp.status = plan.statusCode /\ resp.status \in {200, 206}
        /\ resp.body.kind = "stream"
        /\ resp.headers["Content-Length"] = IntToStr(PlannedLength)

\* While the request lasts the response is not changed, and a step that
\* fails the stream, or follows its failure, takes no enqueued byte back.
FailureKeepsResponse ==
    (stream.state # "none" /\ stream' # NoStream) =>
        /\ resp' = resp
        /\ stream'.state = "errored" => stream'.emitted = stream.emitted

FailedCallStoredNothing ==
    \A i \in 1..MaxResolvers :
        resolvers[i].phase = "failed" =>
            /\ resolvers[i].calls = 1 /\ ~resolvers[i].stored
            /\ resolvers[i].result = <<>>

\* The step in which the lookup of a call fails leaves the cache as it is.
FailureKeepsCache ==
    \A i \in 1..MaxResolvers :
        (resolvers[i].phase = "getFile" /\ resolvers'[i].phase = "failed")
            => cache' = cache

\* A call for an identifier whose lookup has failed for another call, made
\* while the cache holds no entry for it, goes on to its own lookup.
LookupAgainAfterFailure ==
    \A i, j \in 1..MaxResolvers :
        (/\ resolvers[j].phase = "failed"
         /\ resolvers[i].phase = "match" /\ resolvers'[i].phase # "match"
         /\ resolvers[i].fileId = resolvers[j].fileId
         /\ resolvers[i].fileId \notin DOMAIN cache)
            => resolvers'[i].phase = "getFile"

\* C30: when the lookup of an identifier fails getFilePath throws and writes
\* no entry, the cache being left as it was, and a later call for the same
\* identifier makes the lookup again.
C30_FailureNotCached ==
    /\ []FailedCallStoredNothing
    /\ [][FailureKeepsCache]_vars
    /\ [][LookupAgainAfterFailure]_vars

\* The lookup of one call failed, the cache holds no entry for its
\* identifier, and another call for it has made its own lookup.
C30_Witness ==
    \E i, j \in 1..MaxResolvers :
        /\ resolvers[j].phase = "failed" /\ resolvers[j].calls = 1
        /\ resolvers[i].phase = "put" /\ resolvers[i].calls = 1
        /\ ~resolvers[i].held
        /\ resolvers[i].fileId = resolvers[j].fileId
        /\ resolvers[i].fileId \notin DOMAIN cache

\* No sliced task of the plan is stopped by a length check.
SlicesPassChecks ==
    \A i \in 1..Len(plan.tasks) :
        plan.tasks[i].fullChunk
            \/ SliceError(plan.tasks[i], RemoteContent(plan.tasks[i].fileId)) = ""

\* C29: for a manifest of positive sizes and any Range header the handle of
\* src/api_stream.ts gives the response of the handle that plans with
\* calculateTasks (status, Content-Length, Content-Range and the other
\* headers) and createVideoStream plans the same tasks; when every file has
\* its declared length no sliced task is stopped by the length checks that
\* only createVideoStreamFromTasks makes, so both streams enqueue the same
\* bytes, those of the tasks in order.
C29_SameResponseAndTasks ==
    (Served /\ plan.parsed /\ PositiveSizes(plan.chunks)) =>
        /\ handleApiStream(req).resp = resp
        /\ resp.status \in {200, 206} => handleApiStream(req).plan.tasks = plan.tasks
        /\ SizesMatchRemote(plan.chunks) =>
               /\ SlicesPassChecks
               /\ stream.state = "closed" =>
                      stream.emitted = BytesOfTasks(Len(plan.tasks))

\* A range over three chunks of positive sizes that have their declared
\* lengths was served 206 with a sliced first task, and the stream closed.
C29_Witness ==
    /\ plan.parsed /\ SizesMatchRemote(plan.chunks)
    /\ resp.status = 206 /\ Len(plan.tasks) = 3 /\ ~plan.tasks[1].fullChunk
    /\ handleApiStream(req).plan.tasks = plan.tasks
    /\ stream.state = "closed" /\ stream.emitted = RequestedBytes

\* The validity a token request asks for: 3600 when the body has none.
RequestedExpiresIn(q) ==
    IF q.expires_in = NoExpiresIn THEN DefaultExpiresIn ELSE q.expires_in

\* C22: a request is answered with a JWT exactly when it presents the
\* API_TOKEN and asks for a validity that is positive and at most 86400
\* (3600 when it names none); a request of the API_TOKEN for more than
\* 86400 or for 0 or less is answered 400; no other answer carries a token;
\* and every token issued has 0 < exp - iat <= 86400.
C22_TokenIssuedIffValid ==
    issuer.phase = "done" =>
        LET q == issuer.req
            asked == RequestedExpiresIn(q)
            valid == q.token = API_TOKEN /\ 0 < asked /\ asked <= MAX_EXPIRY
        IN  /\ (issuer.status = 200) <=> valid
            /\ (issuer.token # NoToken) <=> valid
            /\ (q.token = API_TOKEN /\ ~valid) => issuer.status = 400
            /\ issuer.token # NoToken =>
                   /\ 0 < issuer.token[2].exp - issuer.token[2].iat
                   /\ issuer.token[2].exp - issuer.token[2].iat <= MAX_EXPIRY

\* Every token issued has 0 < exp - iat <= 86400 and is signed with the
\* API_TOKEN for the scope upload.
IssuedTokenBounded ==
    issuer.token # NoToken =>
        /\ issuer.status = 200
        /\ 0 < issuer.token[2].exp - issuer.token[2].iat
        /\ issuer.token[2].exp - issuer.token[2].iat <= MAX_EXPIRY
        /\ issuer.token[2].scope = "upload"
        /\ issuer.token[3].key = ApiTokenSecret

====
